---- MODULE Spec2Model ----
(***************************************************************************)
(* LAN-SHELL (src/server.js): the terminal session multiplexer, the path   *)
(* sandbox and the archive safety inspector.                               *)
(*                                                                         *)
(* Text is modelled as a sequence of one-character strings.  "NL" stands   *)
(* for the newline character, "ESC" for \x1b and "NUL" for \0.             *)
(***************************************************************************)
EXTENDS Integers, Sequences, FiniteSets, TLC

\* ------------------------------------------------------------------------
\* Bounds of the model
\* ------------------------------------------------------------------------
MaxSteps == 4       \* events (connections, messages, requests, PTY chunks,
                    \* clock ticks, ...) in a run of the session multiplexer
MaxPathLen == 5     \* characters of a client-supplied path
MaxEntryLen == 4    \* characters of an archive entry path
MaxListing == 3     \* entries in an archive
MaxGitOps == 1      \* git requests in a run
MaxPathSegs == 6    \* segments of the longest path the file system takes

\* ------------------------------------------------------------------------
\* Program constants (scaled to model size)
\* ------------------------------------------------------------------------
HISTORY_MAX_CHARS == 4      \* env HISTORY_MAX_CHARS, default 500000
WS_CHUNK_SIZE == 2          \* sendWsTextInChunks chunkSize, default 16 * 1024
MAX_ARCHIVE_ENTRIES == 2    \* 20000 in the code
IDLE_LIMIT == 1             \* 24 h idle threshold, in clock ticks

None == "null"              \* an absent URL parameter / an unbound variable

Sockets == {1, 2, 3}                \* the connections ever opened, in order
IdSeq == <<"s1", "s2">>             \* what generateSessionId returns, in order
IdPool == {IdSeq[i] : i \in 1..Len(IdSeq)}

\* ------------------------------------------------------------------------
\* Text helpers
\* ------------------------------------------------------------------------
startsWith(s, pre) ==
    /\ Len(pre) <= Len(s)
    /\ SubSeq(s, 1, Len(pre)) = pre

IsSuffix(suf, s) ==
    /\ Len(suf) <= Len(s)
    /\ SubSeq(s, Len(s) - Len(suf) + 1, Len(s)) = suf

\* String.prototype.indexOf(ch, from), 1-based; 0 when absent
RECURSIVE indexOf(_, _, _)
indexOf(s, ch, from) ==
    IF from > Len(s) THEN 0
    ELSE IF s[from] = ch THEN from
    ELSE indexOf(s, ch, from + 1)

ClearScrollback == <<"ESC", "[", "3", "J">>

\* data.replace(/\x1b\[3J/g, ''): every non-overlapping occurrence, left to right
RECURSIVE filterFrom(_, _)
filterFrom(s, i) ==
    IF i > Len(s) THEN <<>>
    ELSE IF /\ i + 3 <= Len(s)
            /\ SubSeq(s, i, i + 3) = ClearScrollback
         THEN filterFrom(s, i + 4)
    ELSE <<s[i]>> \o filterFrom(s, i + 1)

filterHistoryForReplay(data) == filterFrom(data, 1)

\* trimHistoryForReplay as it would be with the cut one character early
trimHistoryOffByOne(history) ==
    LET s == history
        n == Len(s)
    IN IF n <= HISTORY_MAX_CHARS THEN s
       ELSE LET start0 == n - HISTORY_MAX_CHARS - 1
                nl == indexOf(s, "NL", start0 + 1)
                start == IF nl # 0 /\ nl < n THEN nl ELSE start0
            IN SubSeq(s, start + 1, n)

\* trimHistoryForReplay as it would be if it kept the head of the text
trimHistoryKeepHead(history) ==
    IF Len(history) <= HISTORY_MAX_CHARS THEN history
    ELSE SubSeq(history, 1, HISTORY_MAX_CHARS)

trimHistoryForReplay(history) ==
    LET s == history
        n == Len(s)
    IN IF n <= HISTORY_MAX_CHARS THEN s
       ELSE LET start0 == n - HISTORY_MAX_CHARS          \* 0-based cut
                nl == indexOf(s, "NL", start0 + 1)       \* 1-based position
                start == IF nl # 0 /\ nl < n THEN nl ELSE start0
            IN SubSeq(s, start + 1, n)

\* the frames sendWsTextInChunks writes for text s: slices of WS_CHUNK_SIZE
RECURSIVE textSlices(_, _)
textSlices(s, size) ==
    IF Len(s) = 0 THEN <<>>
    ELSE IF Len(s) <= size THEN <<s>>
    ELSE <<SubSeq(s, 1, size)>> \o textSlices(SubSeq(s, size + 1, Len(s)), size)

RECURSIVE Concat(_)
Concat(ss) == IF Len(ss) = 0 THEN <<>> ELSE Head(ss) \o Concat(Tail(ss))

\* ------------------------------------------------------------------------
\* Path sandbox (POSIX path.resolve and withinRoot)
\* ------------------------------------------------------------------------
ROOT == <<"/", "r">>        \* env ALLOW_ROOT: the configured root directory

\* s.split('/'), scanning from position i with the current segment cur
RECURSIVE splitFrom(_, _, _, _)
splitFrom(s, i, cur, acc) ==
    IF i > Len(s) THEN Append(acc, cur)
    ELSE IF s[i] = "/" THEN splitFrom(s, i + 1, <<>>, Append(acc, cur))
    ELSE splitFrom(s, i + 1, Append(cur, s[i]), acc)

splitSegs(s) == splitFrom(s, 1, <<>>, <<>>)

\* path.normalize of an absolute path, on its segments: '' and '.' are
\* dropped, '..' removes the previous segment and is dropped at the root
RECURSIVE normalizeSegs(_, _)
normalizeSegs(segs, acc) ==
    IF Len(segs) = 0 THEN acc
    ELSE LET h == Head(segs)
         IN IF h = <<>> \/ h = <<".">> THEN normalizeSegs(Tail(segs), acc)
            ELSE IF h = <<".", ".">>
                 THEN normalizeSegs(Tail(segs),
                          IF Len(acc) = 0 THEN acc ELSE SubSeq(acc, 1, Len(acc) - 1))
            ELSE normalizeSegs(Tail(segs), Append(acc, h))

RECURSIVE joinSegs(_)
joinSegs(segs) ==
    IF Len(segs) = 0 THEN <<>>
    ELSE <<"/">> \o Head(segs) \o joinSegs(Tail(segs))

absPath(segs) == IF Len(segs) = 0 THEN <<"/">> ELSE joinSegs(segs)

\* path.resolve(base, p) for an absolute base
pathResolve(base, p) ==
    LET full == IF Len(p) > 0 /\ p[1] = "/" THEN p
                ELSE base \o <<"/">> \o p
    IN absPath(normalizeSegs(splitSegs(full), <<>>))

withinRoot(targetPath) ==
    LET real == pathResolve(<<"/">>, targetPath)
    IN startsWith(real, pathResolve(<<"/">>, ROOT))

resolvePathFromQuery(raw) ==
    LET target == pathResolve(ROOT, raw)
    IN IF ~withinRoot(target)
       THEN [ok |-> FALSE, error |-> "out of root", target |-> <<>>]
       ELSE [ok |-> TRUE, error |-> "", target |-> target]

\* ------------------------------------------------------------------------
\* Terminal session multiplexer: state
\* ------------------------------------------------------------------------
VARIABLES
    terminalSessions,   \* keys of the registry Map (id -> session)
    sessions,           \* the session objects, by id (they outlive their key)
    minted,             \* identifiers generateSessionId has returned
    ws,                 \* the WebSocket connections and their handler closures
    produced,           \* per session: the chunks its PTY emitted, in order
    ptyIn,              \* per session: the texts written to its PTY, in order
    now,                \* the clock
    httpResp,           \* the last HTTP response
    budget              \* events still to come in this run

sessVars == <<terminalSessions, sessions, minted, ws, produced, ptyIn, now,
              httpResp, budget>>

VARIABLES
    pathRaw,            \* a client-supplied path
    pathRes             \* what resolvePathFromQuery answered for it

pathVars == <<pathRaw, pathRes>>

VARIABLES
    entry,              \* an archive entry path
    verdict             \* what isSafeArchiveEntry answered for it

entryVars == <<entry, verdict>>

VARIABLES
    fs,                 \* the filesystem: absolute path -> kind of node
    fs0,                \* the filesystem when the current request arrived
    listing,            \* the entry paths the archive tool lists
    req,                \* the extract request being served
    pc,                 \* where its handler is
    resp,               \* its HTTP response
    toolRan             \* whether the extraction tool was invoked

arVars == <<fs, fs0, listing, req, pc, resp, toolRan>>

VARIABLES
    gitAvailable,       \* whether `git --version` succeeds
    objects,            \* the commit objects of the repository
    parents,            \* commit hash -> its parent hashes, in order
    head,               \* the commit HEAD points at
    upstream,           \* the head of the upstream ref; None: no upstream
    worktree,           \* the kinds of change `git status` reports
    gitResp,            \* the last response of a git endpoint
    gitOps,             \* git requests still to come in this run
    repos               \* the directories that hold a repository

gitVars == <<gitAvailable, objects, parents, head, upstream, worktree, gitResp,
             gitOps, repos>>

VARIABLES
    tfs,                \* the file tree: path (its segments) -> node
    tfs0,               \* the file tree when the request arrived
    treq,               \* the copy / move request served
    tstats,             \* the handler's stats object when it returned
    tresp               \* its HTTP response

treeVars == <<tfs, tfs0, treq, tstats, tresp>>

\* Streaming uploads to one target path of one directory
VARIABLES
    udir,       \* the directory: which inode the names target and tmp lead to
    uinodes,    \* the content of each inode, a sequence of bytes
    utarget0,   \* the target before the first request
    uploads     \* the requests to POST /api/upload-raw, by request

upVars == <<udir, uinodes, utarget0, uploads>>

\* Text writes: PUT /api/file
VARIABLES
    wfs,        \* the entries below the root a write can name, by name
    wclock,     \* the clock the file system stamps modifications with
    wreq,       \* the last request to PUT /api/file
    wresp,      \* its response
    wleft       \* requests still to come

wrVars == <<wfs, wclock, wreq, wresp, wleft>>

\* the variable groups added after the upload group
lateVars == <<wrVars>>

\* the variable groups added after the first four
restVars == <<gitVars, treeVars, upVars, lateVars>>

vars == <<sessVars, pathVars, entryVars, arVars, restVars>>

\* what a client may put in the sessionId parameter: nothing, the empty
\* string, identifiers the generator mints, and one it never mints
SidParams == {None, "", "s1", "s2", "zz"}
SessionIds == IdPool \cup {"zz"}    \* the :id of an HTTP session request
CidParams == {None, "A", "B"}
CwdParams == {<<".">>, <<".", ".">>}
GeomParams == {<<0, 0>>, <<120, 40>>}   \* cols, rows; 0: absent or unparsable

PtyChunks == {<<"a", "NL", "b">>, <<"ESC", "[">>, <<"3", "J">>,
              <<"c", "ESC", "[", "3", "J">>}

Messages ==
    {[kind |-> "RESIZE", cols |-> 120, rows |-> 40, text |-> <<>>],
     [kind |-> "RESIZE", cols |-> 0, rows |-> 0, text |-> <<>>],
     [kind |-> "GET_SESSION_ID", cols |-> 0, rows |-> 0, text |-> <<>>],
     [kind |-> "raw", cols |-> 0, rows |-> 0, text |-> <<"x">>],
     [kind |-> "raw", cols |-> 0, rows |-> 0, text |-> <<"y", "FF">>]}

Frame(k, d, id) == [k |-> k, d |-> d, id |-> id]
DataFrame(d) == Frame("data", d, "")

NoSession ==
    [cols |-> 0, rows |-> 0, clientId |-> "", history |-> <<>>, sockets |-> {},
     lastActivity |-> 0, alive |-> FALSE, killed |-> FALSE]

NoSocket ==
    [st |-> "idle", hadSid |-> FALSE, clientId |-> "", session |-> None,
     outcome |-> "none", frames |-> <<>>, hist0 |-> <<>>, idx0 |-> 0,
     cols |-> 0, rows |-> 0]

NoResp == [op |-> "none", status |-> 0, ids |-> {}, history |-> <<>>]

SessInit ==
    /\ budget = MaxSteps
    /\ terminalSessions = {}
    /\ sessions = [id \in IdPool |-> NoSession]
    /\ minted = {}
    /\ ws = [w \in Sockets |-> NoSocket]
    /\ produced = [id \in IdPool |-> <<>>]
    /\ ptyIn = [id \in IdPool |-> <<>>]
    /\ now = 0
    /\ httpResp = NoResp

\* every event of a run draws on the step budget
SpendStep ==
    /\ budget > 0
    /\ budget' = budget - 1

\* JavaScript truthiness of a string-or-null URL parameter
Truthy(x) == x # None /\ x # ""

\* parseIntOr as it would be if the parsed number were dropped
parseIntDropped(x, dflt) == dflt

\* Number.parseInt(x || '', 10) || dflt
parseIntOr(x, dflt) == IF x = 0 THEN dflt ELSE x

generateSessionId == IdSeq[Cardinality(minted) + 1]

\* attachBranch as it would be if an unknown sessionId fell through to creation
attachBranchResurrect(sessionId, registry) ==
    IF Truthy(sessionId) /\ sessionId \in registry THEN "known" ELSE "create"

\* attachBranch as it would be with the rejection test inverted (!sessionId)
attachBranchInverted(sessionId, registry) ==
    IF Truthy(sessionId) /\ sessionId \in registry THEN "known"
    ELSE IF ~Truthy(sessionId) THEN "unknown"
    ELSE "create"

\* which arm of the connection handler a sessionId parameter selects
attachBranch(sessionId, registry) ==
    IF Truthy(sessionId) /\ sessionId \in registry THEN "known"
    ELSE IF Truthy(sessionId) THEN "unknown"
    ELSE "create"

\* adoptOwner as it would be if every reconnect with a client id took over
adoptOwnerLatest(clientId, owner) ==
    IF clientId # "" THEN clientId ELSE owner

\* the owner a known session has after "adopt clientId on first reconnect"
adoptOwner(clientId, owner) ==
    IF clientId # "" /\ owner = "" THEN clientId ELSE owner

\* clientMismatch as it would be if the owner comparison were left out
clientMismatchNever(clientId, owner) ==
    clientId # "" /\ owner = ""

clientMismatch(clientId, owner) ==
    clientId # "" /\ owner # "" /\ owner # clientId

\* replayFrames as it would be if the announcement were sent before the replay
replayFramesAnnounceFirst(text, id) ==
    LET slices == textSlices(text, WS_CHUNK_SIZE)
    IN <<Frame("SESSION_ID", <<>>, id)>>
           \o [i \in 1..Len(slices) |-> DataFrame(slices[i])]

\* the frames of sendWsTextInChunks(ws, text) followed by the announcement
replayFrames(text, id) ==
    LET slices == textSlices(text, WS_CHUNK_SIZE)
    IN [i \in 1..Len(slices) |-> DataFrame(slices[i])]
           \o <<Frame("SESSION_ID", <<>>, id)>>

\* recipients as it would be if a socket that is not open ended the loop
recipientsAllOrNone(socks) ==
    IF \A w \in socks : ws[w].st = "open" THEN socks ELSE {}

\* sockets shell.onData sends a chunk to
recipients(socks) == {w \in socks : ws[w].st = "open"}

\* ------------------------------------------------------------------------
\* Terminal session multiplexer: operations
\* ------------------------------------------------------------------------

\* wss.on('connection'): the whole handler, for the next unused socket w
Connect(w, cwdParam, sidParam, cidParam, geomParam) ==
    LET clientId == IF cidParam = None THEN "" ELSE cidParam
        cwd == pathResolve(ROOT, cwdParam)
        cols == parseIntOr(geomParam[1], 80)
        rows == parseIntOr(geomParam[2], 24)
        \* what the handler has read when it reaches the three-way branch
        conn == [ws[w] EXCEPT !.hadSid = Truthy(sidParam),
                              !.cols = cols, !.rows = rows]
        branch == attachBranch(sidParam, terminalSessions)
    IN
    /\ SpendStep
    /\ ws[w].st = "idle"
    /\ \A v \in Sockets : v < w => ws[v].st # "idle"
    /\ UNCHANGED <<produced, ptyIn, now, httpResp>>
    /\ UNCHANGED <<pathVars, entryVars, arVars, restVars>>
    /\ IF ~withinRoot(cwd)
       THEN \* return ws.close()
            /\ ws' = [ws EXCEPT ![w] = [@ EXCEPT !.st = "closing",
                                                !.outcome = "outofroot"]]
            /\ UNCHANGED <<terminalSessions, sessions, minted>>
       ELSE IF branch = "known"
       THEN LET owner == adoptOwner(clientId, sessions[sidParam].clientId)
            IN IF clientMismatch(clientId, owner)
               THEN /\ ws' = [ws EXCEPT ![w] =
                                [conn EXCEPT
                                   !.st = "closing",
                                   !.outcome = "forbidden",
                                   !.clientId = clientId,
                                   !.frames = <<Frame("SESSION_FORBIDDEN", <<>>, sidParam)>>]]
                    /\ sessions' = [sessions EXCEPT ![sidParam].clientId = owner]
                    /\ UNCHANGED <<terminalSessions, minted>>
               ELSE /\ ws' = [ws EXCEPT ![w] =
                                [conn EXCEPT
                                   !.st = "open",
                                   !.outcome = "reattached",
                                   !.clientId = clientId,
                                   !.session = sidParam,
                                   !.frames = replayFrames(sessions[sidParam].history, sidParam),
                                   !.hist0 = sessions[sidParam].history,
                                   !.idx0 = Len(produced[sidParam])]]
                    /\ sessions' = [sessions EXCEPT
                                      ![sidParam].clientId = owner,
                                      ![sidParam].sockets = @ \cup {w}]
                    /\ UNCHANGED <<terminalSessions, minted>>
       ELSE IF branch = "unknown"
       THEN /\ ws' = [ws EXCEPT ![w] =
                        [conn EXCEPT
                           !.st = "closing",
                           !.outcome = "notfound",
                           !.frames = <<Frame("SESSION_NOT_FOUND", <<>>, sidParam)>>]]
            /\ UNCHANGED <<terminalSessions, sessions, minted>>
       ELSE /\ Cardinality(minted) < Len(IdSeq)
            /\ LET id == generateSessionId
               IN /\ minted' = minted \cup {id}
                  /\ sessions' = [sessions EXCEPT ![id] =
                                    [cols |-> cols, rows |-> rows, clientId |-> clientId,
                                     history |-> <<>>, sockets |-> {w},
                                     lastActivity |-> now, alive |-> TRUE,
                                     killed |-> FALSE]]
                  /\ terminalSessions' = terminalSessions \cup {id}
                  /\ ws' = [ws EXCEPT ![w] =
                              [conn EXCEPT
                                 !.st = "open",
                                 !.outcome = "created",
                                 !.clientId = clientId,
                                 !.session = id,
                                 !.frames = <<Frame("TITLE", <<>>, id),
                                              Frame("SESSION_ID", <<>>, id)>>]]

\* shell.onData(data) of session id
Output(id, data) ==
    /\ id \in minted
    /\ sessions[id].alive
    /\ SpendStep
    /\ produced' = [produced EXCEPT ![id] = Append(@, data)]
    /\ sessions' = [sessions EXCEPT
                      ![id].history = trimHistoryForReplay(@ \o filterHistoryForReplay(data)),
                      ![id].lastActivity = now]
    /\ ws' = [w \in Sockets |->
                IF w \in recipients(sessions[id].sockets)
                THEN [ws[w] EXCEPT !.frames = Append(@, DataFrame(data))]
                ELSE ws[w]]
    /\ UNCHANGED <<terminalSessions, minted, ptyIn, now, httpResp>>
    /\ UNCHANGED <<pathVars, entryVars, arVars, restVars>>

\* ws.on('message') of an attached socket
\* m.toString(): the bytes of the frame decoded as UTF-8; a byte that is not
\* part of a valid sequence (here "FF") becomes the replacement character
toString(bytes) ==
    [i \in 1..Len(bytes) |-> IF bytes[i] = "FF" THEN "FFFD" ELSE bytes[i]]

Message(w, m) ==
    LET id == ws[w].session
    IN
    /\ ws[w].st = "open"
    /\ ws[w].outcome \in {"created", "reattached"}
    /\ SpendStep
    /\ UNCHANGED <<terminalSessions, minted, produced, now, httpResp>>
    /\ UNCHANGED <<pathVars, entryVars, arVars, restVars>>
    /\ IF m.kind = "RESIZE"
       THEN /\ sessions' = [sessions EXCEPT
                              ![id].cols = parseIntOr(m.cols, 80),
                              ![id].rows = parseIntOr(m.rows, 24),
                              ![id].lastActivity = now]
            /\ UNCHANGED <<ws, ptyIn>>
       ELSE IF m.kind = "GET_SESSION_ID"
       THEN /\ ws' = [ws EXCEPT ![w].frames = Append(@, Frame("SESSION_ID", <<>>, id))]
            /\ UNCHANGED <<sessions, ptyIn>>
       ELSE /\ ptyIn' = [ptyIn EXCEPT ![id] = Append(@, toString(m.text))]
            /\ sessions' = [sessions EXCEPT ![id].lastActivity = now]
            /\ UNCHANGED ws

\* the peer starts closing (or drops) its connection: readyState leaves OPEN
ClientClose(w) ==
    /\ SpendStep
    /\ ws[w].st = "open"
    /\ ws' = [ws EXCEPT ![w].st = "closing"]
    /\ UNCHANGED <<terminalSessions, sessions, minted, produced, ptyIn, now,
                   httpResp>>
    /\ UNCHANGED <<pathVars, entryVars, arVars, restVars>>

\* CloseEvent as it would be if the last socket to go took the session along
CloseEventEndsSession(w) ==
    LET attached == ws[w].outcome \in {"created", "reattached"}
        left == IF attached THEN sessions[ws[w].session].sockets \ {w} ELSE {}
    IN
    /\ SpendStep
    /\ ws[w].st = "closing"
    /\ ws[w].outcome \in {"created", "reattached", "notfound"}
    /\ ws' = [ws EXCEPT ![w].st = "closed"]
    /\ sessions' = IF attached
                   THEN [sessions EXCEPT ![ws[w].session].sockets = left]
                   ELSE sessions
    /\ terminalSessions' = IF attached /\ left = {}
                           THEN terminalSessions \ {ws[w].session}
                           ELSE terminalSessions
    /\ UNCHANGED <<minted, produced, ptyIn, now, httpResp>>
    /\ UNCHANGED <<pathVars, entryVars, arVars, restVars>>

\* ws.on('close'): session?.sockets?.delete(ws); the handler is registered
\* on every path that does not return early
CloseEvent(w) ==
    /\ SpendStep
    /\ ws[w].st = "closing"
    /\ ws[w].outcome \in {"created", "reattached", "notfound"}
    /\ ws' = [ws EXCEPT ![w].st = "closed"]
    /\ sessions' = IF ws[w].outcome \in {"created", "reattached"}
                   THEN [sessions EXCEPT ![ws[w].session].sockets = @ \ {w}]
                   ELSE sessions
    /\ UNCHANGED <<terminalSessions, minted, produced, ptyIn, now, httpResp>>
    /\ UNCHANGED <<pathVars, entryVars, arVars, restVars>>

\* sock.close() on every socket of a set
closeAll(socks) ==
    [w \in Sockets |->
        IF w \in socks /\ ws[w].st = "open"
        THEN [ws[w] EXCEPT !.st = "closing"]
        ELSE ws[w]]

\* session.shell.kill() for every id of ids: the signal is sent; the process
\* exits later (ShellExit) and may still produce output until then
killAll(ids) ==
    [id \in IdPool |->
        IF id \in ids THEN [sessions[id] EXCEPT !.killed = TRUE] ELSE sessions[id]]

\* DELETE /api/sessions/:id
Terminate(sessionId, cidParam) ==
    LET clientId == IF cidParam = None THEN "" ELSE cidParam
    IN
    /\ SpendStep
    /\ UNCHANGED <<minted, produced, ptyIn, now>>
    /\ UNCHANGED <<pathVars, entryVars, arVars, restVars>>
    /\ IF sessionId \notin terminalSessions
       THEN /\ httpResp' = [NoResp EXCEPT !.op = "terminate", !.status = 404]
            /\ UNCHANGED <<terminalSessions, sessions, ws>>
       ELSE IF clientId # "" /\ sessions[sessionId].clientId # clientId
       THEN /\ httpResp' = [NoResp EXCEPT !.op = "terminate", !.status = 403]
            /\ UNCHANGED <<terminalSessions, sessions, ws>>
       ELSE /\ ws' = closeAll(sessions[sessionId].sockets)
            /\ sessions' = killAll({sessionId})
            /\ terminalSessions' = terminalSessions \ {sessionId}
            /\ httpResp' = [NoResp EXCEPT !.op = "terminate", !.status = 200]

\* TerminateAll as it would be if the clientId filter were left out
TerminateEveryone(cidParam) ==
    LET ids == terminalSessions
    IN
    /\ SpendStep
    /\ ws' = closeAll(UNION {sessions[id].sockets : id \in ids})
    /\ sessions' = killAll(ids)
    /\ terminalSessions' = terminalSessions \ ids
    /\ httpResp' = [NoResp EXCEPT !.op = "terminateAll", !.status = 200, !.ids = ids]
    /\ UNCHANGED <<minted, produced, ptyIn, now>>
    /\ UNCHANGED <<pathVars, entryVars, arVars, restVars>>

\* DELETE /api/sessions
TerminateAll(cidParam) ==
    LET clientId == IF cidParam = None THEN "" ELSE cidParam
        ids == {id \in terminalSessions :
                   clientId = "" \/ sessions[id].clientId = clientId}
    IN
    /\ SpendStep
    /\ ws' = closeAll(UNION {sessions[id].sockets : id \in ids})
    /\ sessions' = killAll(ids)
    /\ terminalSessions' = terminalSessions \ ids
    /\ httpResp' = [NoResp EXCEPT !.op = "terminateAll", !.status = 200, !.ids = ids]
    /\ UNCHANGED <<minted, produced, ptyIn, now>>
    /\ UNCHANGED <<pathVars, entryVars, arVars, restVars>>

\* GET /api/sessions
List(cidParam) ==
    LET clientId == IF cidParam = None THEN "" ELSE cidParam
    IN
    /\ SpendStep
    /\ httpResp' = [NoResp EXCEPT
                      !.op = "list", !.status = 200,
                      !.ids = {id \in terminalSessions :
                                  clientId = "" \/ sessions[id].clientId = clientId}]
    /\ UNCHANGED <<terminalSessions, sessions, minted, ws, produced, ptyIn, now>>
    /\ UNCHANGED <<pathVars, entryVars, arVars, restVars>>

\* GET /api/sessions/:id/history.  cidParam is the client identifier of the
\* requester: the handler reads nothing of the request but the :id
History(sessionId, cidParam) ==
    /\ SpendStep
    /\ httpResp' = IF sessionId \notin terminalSessions
                   THEN [NoResp EXCEPT !.op = "history", !.status = 404]
                   ELSE [NoResp EXCEPT !.op = "history", !.status = 200,
                                       !.ids = {sessionId},
                                       !.history = sessions[sessionId].history]
    /\ UNCHANGED <<terminalSessions, sessions, minted, ws, produced, ptyIn, now>>
    /\ UNCHANGED <<pathVars, entryVars, arVars, restVars>>

\* the setInterval sweep of long-inactive sessions
Sweep ==
    LET ids == {id \in terminalSessions : now - sessions[id].lastActivity > IDLE_LIMIT}
    IN
    /\ SpendStep
    /\ ids # {}
    /\ sessions' = killAll(ids)
    /\ terminalSessions' = terminalSessions \ ids
    /\ UNCHANGED <<minted, ws, produced, ptyIn, now, httpResp>>
    /\ UNCHANGED <<pathVars, entryVars, arVars, restVars>>

Tick ==
    /\ SpendStep
    /\ now' = now + 1
    /\ UNCHANGED <<terminalSessions, sessions, minted, ws, produced, ptyIn,
                   httpResp>>
    /\ UNCHANGED <<pathVars, entryVars, arVars, restVars>>

\* ShellExit as it would be with an exit handler that drops the session
ShellExitRemoves(id) ==
    /\ SpendStep
    /\ id \in minted
    /\ sessions[id].alive
    /\ sessions' = [sessions EXCEPT ![id].alive = FALSE]
    /\ terminalSessions' = terminalSessions \ {id}
    /\ UNCHANGED <<minted, ws, produced, ptyIn, now, httpResp>>
    /\ UNCHANGED <<pathVars, entryVars, arVars, restVars>>

\* the shell process of a session exits, on its own or after a kill
ShellExit(id) ==
    /\ SpendStep
    /\ id \in minted
    /\ sessions[id].alive
    /\ sessions' = [sessions EXCEPT ![id].alive = FALSE]
    /\ UNCHANGED <<terminalSessions, minted, ws, produced, ptyIn, now, httpResp>>
    /\ UNCHANGED <<pathVars, entryVars, arVars, restVars>>

\* ------------------------------------------------------------------------
\* Values of the parts a specification does not exercise
\* ------------------------------------------------------------------------
NoPathRes == [done |-> FALSE, ok |-> FALSE, target |-> <<>>]

PathIdle == pathRaw = <<>> /\ pathRes = NoPathRes

EntryIdle == entry = <<>> /\ verdict = "unchecked"

NoReq == [path |-> <<>>, dest |-> <<>>, overwrite |-> FALSE]
NoArResp == [status |-> 0, error |-> ""]

NoGitResp ==
    [op |-> "none", cwd |-> <<>>, mode |-> "", commit |-> "", confirm |-> "",
     status |-> 0, error |-> "", ran |-> FALSE, upstreamHead |-> None,
     at |-> <<>>, commits |-> <<>>, limit |-> 0]

GitIdle ==
    /\ gitAvailable = FALSE
    /\ objects = {}
    /\ parents = <<>>
    /\ head = None
    /\ upstream = None
    /\ worktree = {}
    /\ gitResp = NoGitResp
    /\ gitOps = 0
    /\ repos = {}

NoStats == [done |-> 0, skipped |-> 0, overwritten |-> 0]
NoTreeReq ==
    [op |-> "none", src |-> <<>>, destDir |-> <<>>, destName |-> <<>>,
     policy |-> "", order |-> <<>>, renameOk |-> FALSE]
NoTreeResp ==
    [status |-> 0, error |-> "", counts |-> FALSE, done |-> 0, skipped |-> 0,
     overwritten |-> 0]

TreeIdle ==
    /\ tfs = <<>>
    /\ tfs0 = <<>>
    /\ treq = NoTreeReq
    /\ tstats = NoStats
    /\ tresp = NoTreeResp

NoUpload ==
    [pc |-> "idle", payload |-> <<>>, overwrite |-> FALSE, fd |-> 0, pos |-> 0,
     sent |-> 0, written |-> 0, status |-> 0, error |-> ""]

Requests == {1, 2}

UpIdle ==
    /\ udir = [target |-> 0, tmp |-> 0]
    /\ uinodes = <<>>
    /\ utarget0 = [exists |-> FALSE, data |-> <<>>]
    /\ uploads = [u \in Requests |-> NoUpload]

NoWriteReq == [path |-> <<>>, content |-> "none", mtimeMs |-> "absent"]
NoWriteResp == [status |-> 0, error |-> "", mtimeMs |-> 0]

WrIdle ==
    /\ wfs = <<>>
    /\ wclock = 0
    /\ wreq = NoWriteReq
    /\ wresp = NoWriteResp
    /\ wleft = 0

LateIdle == WrIdle

RestIdle == GitIdle /\ TreeIdle /\ UpIdle /\ LateIdle

ArIdle ==
    /\ fs = <<>>
    /\ fs0 = <<>>
    /\ listing = <<>>
    /\ req = NoReq
    /\ pc = "idle"
    /\ resp = NoArResp
    /\ toolRan = FALSE

\* ------------------------------------------------------------------------
\* Specification of the session multiplexer
\* ------------------------------------------------------------------------
Init == SessInit /\ PathIdle /\ EntryIdle /\ ArIdle /\ RestIdle

Next ==
    \/ \E w \in Sockets, cwdParam \in CwdParams, sidParam \in SidParams,
          cidParam \in CidParams, geomParam \in GeomParams :
          Connect(w, cwdParam, sidParam, cidParam, geomParam)
    \/ \E id \in IdPool, data \in PtyChunks : Output(id, data)
    \/ \E w \in Sockets, m \in Messages : Message(w, m)
    \/ \E w \in Sockets : ClientClose(w)
    \/ \E w \in Sockets : CloseEvent(w)
    \/ \E sessionId \in SessionIds, cidParam \in CidParams :
          Terminate(sessionId, cidParam)
    \/ \E cidParam \in CidParams : TerminateAll(cidParam)
    \/ \E cidParam \in CidParams : List(cidParam)
    \/ \E sessionId \in SessionIds, cidParam \in CidParams :
          History(sessionId, cidParam)
    \/ Sweep
    \/ Tick
    \/ \E id \in IdPool : ShellExit(id)

Spec == Init /\ [][Next]_vars

\* ------------------------------------------------------------------------
\* Properties of the session multiplexer
\* ------------------------------------------------------------------------

\* socket w is connected by this step
Connects(w) == ws[w].st = "idle" /\ ws'[w].st # "idle"

\* the sessionId a connection that reached the known or unknown arm carried
connSid(c) == IF c.outcome = "reattached" THEN c.session ELSE c.frames[1].id

\* the frames after the first SESSION_ID announcement that carry PTY data
RECURSIVE afterAnnounce(_)
afterAnnounce(frames) ==
    IF Len(frames) = 0 THEN <<>>
    ELSE IF Head(frames).k = "SESSION_ID" THEN Tail(frames)
    ELSE afterAnnounce(Tail(frames))

RECURSIVE beforeAnnounce(_)
beforeAnnounce(frames) ==
    IF Len(frames) = 0 \/ Head(frames).k = "SESSION_ID" THEN <<>>
    ELSE <<Head(frames)>> \o beforeAnnounce(Tail(frames))

payloads(frames) == [i \in 1..Len(frames) |-> frames[i].d]

liveData(frames) ==
    payloads(SelectSeq(afterAnnounce(frames), LAMBDA f : f.k = "data"))

\* the replay buffer a PTY output stream leaves behind
RECURSIVE bufferOf(_)
bufferOf(chunks) ==
    IF Len(chunks) = 0 THEN <<>>
    ELSE trimHistoryForReplay(
             bufferOf(SubSeq(chunks, 1, Len(chunks) - 1))
                 \o filterHistoryForReplay(chunks[Len(chunks)]))

RECURSIVE filteredLen(_)
filteredLen(chunks) ==
    IF Len(chunks) = 0 THEN 0
    ELSE Len(filterHistoryForReplay(Head(chunks))) + filteredLen(Tail(chunks))

(* C1: a connection that names a registered session which has an owner, and  *)
(* supplies a different non-empty client identifier, is sent                 *)
(* SESSION_FORBIDDEN and closed, and the session object is left as it was;   *)
(* such a socket is never in any attachment set and never receives another   *)
(* frame (no replay, no PTY output).                                         *)
C1_Step ==
    \A w \in Sockets :
        (/\ Connects(w)
         /\ ws'[w].outcome \in {"reattached", "forbidden"}
         /\ sessions[connSid(ws'[w])].clientId # ""
         /\ ws'[w].clientId # ""
         /\ ws'[w].clientId # sessions[connSid(ws'[w])].clientId)
        => /\ ws'[w].outcome = "forbidden"
           /\ ws'[w].frames = <<Frame("SESSION_FORBIDDEN", <<>>, connSid(ws'[w]))>>
           /\ ws'[w].st = "closing"
           /\ sessions' = sessions
           /\ terminalSessions' = terminalSessions

C1_Inv ==
    \A w \in Sockets :
        ws[w].outcome = "forbidden"
        => /\ Len(ws[w].frames) = 1
           /\ ws[w].frames[1].k = "SESSION_FORBIDDEN"
           /\ ws[w].st # "open"
           /\ \A id \in IdPool : w \notin sessions[id].sockets

C1_ForbiddenAttach == [][C1_Step]_vars /\ []C1_Inv

C1_Witness ==
    \E w \in Sockets :
        /\ ws[w].outcome = "forbidden"
        /\ sessions[ws[w].frames[1].id].history # <<>>
        /\ ws[w].frames[1].id \in terminalSessions

(* C2: a connection that names a sessionId which is not a key of the         *)
(* registry is sent SESSION_NOT_FOUND and closed; no session object is       *)
(* made, no identifier is minted and the registry keeps exactly its keys.    *)
C2_Step ==
    \A w \in Sockets :
        (Connects(w) /\ ws'[w].hadSid /\ ws'[w].outcome # "outofroot")
        => /\ ws'[w].outcome \in {"reattached", "forbidden", "notfound"}
           /\ ws'[w].outcome = "notfound" <=> connSid(ws'[w]) \notin terminalSessions
           /\ ws'[w].outcome = "notfound"
              => /\ ws'[w].frames =
                        <<Frame("SESSION_NOT_FOUND", <<>>, connSid(ws'[w]))>>
                 /\ ws'[w].st = "closing"
                 /\ terminalSessions' = terminalSessions
                 /\ sessions' = sessions
                 /\ minted' = minted

C2_UnknownRejected == [][C2_Step]_vars

C2_Witness ==
    /\ terminalSessions # {}
    /\ \E w \in Sockets : ws[w].outcome = "notfound" /\ ws[w].frames[1].id = "zz"
    /\ \E w \in Sockets : ws[w].outcome = "notfound" /\ ws[w].frames[1].id \in minted

(* C3: every key of the registry was returned by generateSessionId while     *)
(* serving a connection that carried no sessionId; the registry grows only   *)
(* in such a step, by exactly that fresh key.                                *)
C3_Step ==
    \/ terminalSessions' \subseteq terminalSessions
    \/ \E w \in Sockets :
          /\ Connects(w)
          /\ ws'[w].outcome = "created"
          /\ ~ws'[w].hadSid
          /\ ws'[w].session = generateSessionId
          /\ ws'[w].session \notin minted
          /\ terminalSessions' = terminalSessions \cup {ws'[w].session}

C3_Inv ==
    \A id \in terminalSessions :
        /\ id \in minted
        /\ \E w \in Sockets :
              ws[w].outcome = "created" /\ ws[w].session = id /\ ~ws[w].hadSid

C3_ServerMintedKeys == [][C3_Step]_vars /\ []C3_Inv

C3_Witness ==
    /\ Cardinality(terminalSessions) = 2
    /\ \E w \in Sockets : ws[w].outcome = "notfound"
    /\ httpResp.op # "none"

(* C4: a socket that reattached received, in this order: frames whose        *)
(* concatenation is the replay buffer as it was when it attached (the        *)
(* buffer left by the chunks produced until then), the SESSION_ID            *)
(* announcement, and then the chunks the PTY produced after the attach, in   *)
(* production order and once each: all of them while the socket is open, a   *)
(* prefix of them once it is not.                                            *)
C4_Step ==
    \A w \in Sockets :
        (Connects(w) /\ ws'[w].outcome = "reattached")
        => LET fr == ws'[w].frames
               id == ws'[w].session
           IN /\ Len(fr) >= 1
              /\ fr[Len(fr)] = Frame("SESSION_ID", <<>>, id)
              /\ \A i \in 1..(Len(fr) - 1) :
                    fr[i].k = "data" /\ Len(fr[i].d) \in 1..WS_CHUNK_SIZE
              /\ Concat(payloads(SubSeq(fr, 1, Len(fr) - 1))) = sessions[id].history
              /\ w \in sessions'[id].sockets

C4_Inv ==
    \A w \in Sockets :
        ws[w].outcome = "reattached"
        => LET id == ws[w].session
               replay == beforeAnnounce(ws[w].frames)
               live == liveData(ws[w].frames)
               after == SubSeq(produced[id], ws[w].idx0 + 1, Len(produced[id]))
           IN /\ \A i \in 1..Len(replay) : replay[i].k = "data"
              /\ Concat(payloads(replay)) = bufferOf(SubSeq(produced[id], 1, ws[w].idx0))
              /\ Len(live) <= Len(after)
              /\ live = SubSeq(after, 1, Len(live))
              /\ (ws[w].st = "open" /\ w \in sessions[id].sockets) => live = after

C4_ReplayThenLive == [][C4_Step]_vars /\ []C4_Inv

C4_Witness ==
    \E w \in Sockets :
        /\ ws[w].outcome = "reattached"
        /\ Len(beforeAnnounce(ws[w].frames)) >= 2
        /\ Len(liveData(ws[w].frames)) >= 1

(* C5: a chunk the PTY of a session produces is appended to the frames of    *)
(* exactly the sockets that are in the session's attachment set and open;    *)
(* every other socket's frames are unchanged; two sockets attached to the    *)
(* same session and open have received the same chunks since the later of    *)
(* their attach points.                                                      *)
C5_Step ==
    \A id \in IdPool :
        produced'[id] # produced[id]
        => LET data == produced'[id][Len(produced'[id])]
           IN /\ produced'[id] = Append(produced[id], data)
              /\ \A w \in Sockets :
                    ws'[w].frames =
                        IF w \in sessions[id].sockets /\ ws[w].st = "open"
                        THEN Append(ws[w].frames, DataFrame(data))
                        ELSE ws[w].frames

C5_Inv ==
    \A id \in IdPool : \A w1, w2 \in sessions[id].sockets :
        (ws[w1].st = "open" /\ ws[w2].st = "open" /\ ws[w1].idx0 <= ws[w2].idx0)
        => LET l1 == liveData(ws[w1].frames)
               l2 == liveData(ws[w2].frames)
               skip == ws[w2].idx0 - ws[w1].idx0
           IN SubSeq(l1, skip + 1, Len(l1)) = l2

C5_FanOut == [][C5_Step]_vars /\ []C5_Inv

C5_Witness ==
    \E id \in IdPool : \E w1, w2 \in sessions[id].sockets :
        /\ ws[w1].st = "open"
        /\ ws[w2].st = "closing"
        /\ Len(liveData(ws[w1].frames)) > Len(liveData(ws[w2].frames))
        /\ ws[w1].idx0 >= ws[w2].idx0

(* C6: the replay buffer of every session is at most HISTORY_MAX_CHARS long. *)
C6_HistoryBounded ==
    \A id \in IdPool : Len(sessions[id].history) <= HISTORY_MAX_CHARS

C6_Witness ==
    \E id \in IdPool :
        /\ filteredLen(produced[id]) > HISTORY_MAX_CHARS
        /\ Len(sessions[id].history) = HISTORY_MAX_CHARS

(* C7: the replay buffer changes only when the session's PTY produces a      *)
(* chunk, and then the new buffer is a suffix of the old buffer followed by  *)
(* the filtered chunk.                                                       *)
C7_Step ==
    \A id \in IdPool :
        IF produced'[id] # produced[id]
        THEN IsSuffix(sessions'[id].history,
                      sessions[id].history
                          \o filterHistoryForReplay(produced'[id][Len(produced'[id])]))
        ELSE sessions'[id].history = sessions[id].history

C7_AppendOnly == [][C7_Step]_vars

C7_Witness ==
    \E id \in IdPool :
        /\ filteredLen(produced[id]) > HISTORY_MAX_CHARS
        /\ Len(sessions[id].history) \in 1..(HISTORY_MAX_CHARS - 1)

\* ------------------------------------------------------------------------
\* Path sandbox: resolvePathFromQuery applied to every short path
\* ------------------------------------------------------------------------
PathChars == {"/", ".", "r", "x"}

StringsUpTo(chars, n) == UNION {[1..k -> chars] : k \in 0..n}

PathInit ==
    /\ pathRaw \in StringsUpTo(PathChars, MaxPathLen)
    /\ pathRes = NoPathRes

ResolvePath ==
    /\ ~pathRes.done
    /\ LET r == resolvePathFromQuery(pathRaw)
       IN pathRes' = [done |-> TRUE, ok |-> r.ok, target |-> r.target]
    /\ UNCHANGED pathRaw
    /\ UNCHANGED <<sessVars, entryVars, arVars, restVars>>

SessIdle ==
    /\ budget = 0
    /\ terminalSessions = {}
    /\ sessions = [id \in IdPool |-> NoSession]
    /\ minted = {}
    /\ ws = [w \in Sockets |-> NoSocket]
    /\ produced = [id \in IdPool |-> <<>>]
    /\ ptyIn = [id \in IdPool |-> <<>>]
    /\ now = 0
    /\ httpResp = NoResp

PathNext == ResolvePath

InitPath == PathInit /\ SessIdle /\ EntryIdle /\ ArIdle /\ RestIdle

SpecPath == InitPath /\ [][PathNext]_vars

\* the segments of the normalized absolute path t
segsOf(t) == normalizeSegs(splitSegs(t), <<>>)

\* t is the root or lies below it, by whole path segments
ContainedInRoot(t) ==
    LET rs == segsOf(ROOT)
        ts == segsOf(t)
    IN Len(rs) <= Len(ts) /\ SubSeq(ts, 1, Len(rs)) = rs

(* C8: a client-supplied path is rejected ('out of root') exactly when its   *)
(* normalized absolute resolution is neither the root nor a path below the   *)
(* root by whole path segments.                                              *)
C8_SegmentContainment ==
    pathRes.done
    => (pathRes.ok <=> ContainedInRoot(pathResolve(ROOT, pathRaw)))

\* ------------------------------------------------------------------------
\* Archive entry safety: isSafeArchiveEntry applied to every short entry path
\* ------------------------------------------------------------------------
EntryChars == {"/", "\\", ".", "C", "a", ":", "NUL"}

\* [a-zA-Z] over the model's alphabet
Letters == {"C", "a"}

\* entry.replace(/\0/g, '')
stripNul(s) == SelectSeq(s, LAMBDA c : c # "NUL")

\* raw.replace(/\\/g, '/')
slashes(s) == [i \in 1..Len(s) |-> IF s[i] = "\\" THEN "/" ELSE s[i]]

\* while (p.startsWith('./')) p = p.slice(2)
RECURSIVE stripDotSlash(_)
stripDotSlash(p) ==
    IF startsWith(p, <<".", "/">>)
    THEN stripDotSlash(SubSeq(p, 3, Len(p)))
    ELSE p

normalizeEntryPath(e) == stripDotSlash(slashes(stripNul(e)))

\* /^[a-zA-Z]:\//.test(p)
driveRegex(p) ==
    Len(p) >= 3 /\ p[1] \in Letters /\ p[2] = ":" /\ p[3] = "/"

\* p.split('/').filter(Boolean)
entrySegs(p) == SelectSeq(splitSegs(p), LAMBDA g : g # <<>>)

isSafeArchiveEntry(e) ==
    LET p == normalizeEntryPath(e)
    IN IF p = <<>> THEN FALSE
       ELSE IF startsWith(p, <<"/">>) THEN FALSE
       ELSE IF driveRegex(p) THEN FALSE
       ELSE IF \E i \in 1..Len(entrySegs(p)) : entrySegs(p)[i] = <<".", ".">>
            THEN FALSE
       ELSE TRUE

EntryInit ==
    /\ entry \in StringsUpTo(EntryChars, MaxEntryLen)
    /\ verdict = "unchecked"

CheckEntry ==
    /\ verdict = "unchecked"
    /\ verdict' = IF isSafeArchiveEntry(entry) THEN "safe" ELSE "unsafe"
    /\ UNCHANGED entry
    /\ UNCHANGED <<sessVars, pathVars, arVars, restVars>>

EntryNext == CheckEntry

InitEntry == EntryInit /\ SessIdle /\ PathIdle /\ ArIdle /\ RestIdle

SpecEntry == InitEntry /\ [][EntryNext]_vars

\* the entry path with either separator read as '/', leading "./" removed
EntryShape(e) == stripDotSlash(slashes(e))

EntryIsEmpty(e) == e = <<>>
EntryIsAbsolute(e) == startsWith(EntryShape(e), <<"/">>)
EntryHasDrive(e) ==
    Len(EntryShape(e)) >= 2 /\ EntryShape(e)[1] \in Letters
                            /\ EntryShape(e)[2] = ":"
EntryHasDotDot(e) ==
    \E i \in 1..Len(splitSegs(EntryShape(e))) :
        splitSegs(EntryShape(e))[i] = <<".", ".">>

(* C10: the entry-safety check rejects the empty path, any absolute path,    *)
(* any path that begins with a drive letter, and any path that has a '..'    *)
(* segment, with '/' or '\' as the separator and after leading './' has been *)
(* stripped.                                                                 *)
C10_UnsafeShapesRejected ==
    (verdict # "unchecked"
       /\ (EntryIsEmpty(entry) \/ EntryIsAbsolute(entry)
             \/ EntryHasDrive(entry) \/ EntryHasDotDot(entry)))
    => verdict = "unsafe"

\* the same statement without the drive-letter shape
C10_OtherShapesRejected ==
    (verdict # "unchecked"
       /\ (EntryIsEmpty(entry) \/ EntryIsAbsolute(entry)
             \/ EntryHasDotDot(entry)))
    => verdict = "unsafe"

\* ------------------------------------------------------------------------
\* Archive extraction: POST /api/archive/extract over a small file system
\* ------------------------------------------------------------------------
\* file names and suffixes, as character sequences
ZIPEXT == <<".", "z", "i", "p">>
TAREXT == <<".", "t", "a", "r">>
TARGZEXT == <<".", "t", "a", "r", ".", "g", "z">>
TGZEXT == <<".", "t", "g", "z">>
TARBZ2EXT == <<".", "t", "a", "r", ".", "b", "z", "2">>
TBZ2EXT == <<".", "t", "b", "z", "2">>
TARXZEXT == <<".", "t", "a", "r", ".", "x", "z">>
TXZEXT == <<".", "t", "x", "z">>
AZIP == <<"a", ".", "z", "i", "p">>
AZIPUP == <<"a", ".", "Z", "I", "P">>
ATGZ == <<"a", ".", "t", "g", "z">>
ATXT == <<"a", ".", "t", "x", "t">>
AOUT == <<".", ".", "/", "a", ".", "z", "i", "p">>
PASSWD == <<".", ".", "/", ".", ".", "/", "e", "t", "c", "/", "p", "a", "s", "s", "w", "d">>

\* the file system maps an absolute path to the kind of node found there
statKind(f, t) == IF t \in DOMAIN f THEN f[t] ELSE "absent"

\* t and every path above it
ancestors(t) == {absPath(SubSeq(segsOf(t), 1, k)) : k \in 0..Len(segsOf(t))}

\* fs.mkdirSync(t, { recursive: true }) throws when a file is in the way
mkdirBlocked(f, t) == \E q \in ancestors(t) : statKind(f, q) = "file"

mkdirp(f, t) ==
    [q \in DOMAIN f \cup ancestors(t) |-> IF q \in DOMAIN f THEN f[q] ELSE "dir"]

lowerChar(c) ==
    CASE c = "Z" -> "z" [] c = "I" -> "i" [] c = "P" -> "p" [] OTHER -> c

toLowerCase(s) == [i \in 1..Len(s) |-> lowerChar(s[i])]

detectArchiveType(filePath) ==
    LET p == toLowerCase(filePath)
    IN IF IsSuffix(ZIPEXT, p) THEN "zip"
       ELSE IF IsSuffix(TAREXT, p) THEN "tar"
       ELSE IF IsSuffix(TARGZEXT, p) \/ IsSuffix(TGZEXT, p) THEN "targz"
       ELSE IF IsSuffix(TARBZ2EXT, p) \/ IsSuffix(TBZ2EXT, p) THEN "tarbz2"
       ELSE IF IsSuffix(TARXZEXT, p) \/ IsSuffix(TXZEXT, p) THEN "tarxz"
       ELSE None

\* request bodies
ArPaths == {AZIP, AZIPUP, ATGZ, ATXT, AOUT}
DestPaths == {<<"o">>, <<"o", "/", "n">>, <<".">>, <<".", ".">>, <<"f">>,
              <<"f", "/", "n">>}

\* what the archive on disk holds, as its tool lists it
ArEntries == {<<"x">>, <<"d", "/", "y">>, PASSWD}
Listings == StringsUpTo(ArEntries, MaxListing)

\* the file systems a request can meet: the root, a plain file f, the
\* archives (a.zip may be missing or a directory), the directory o or not
BaseFs ==
    [q \in {<<"/">>, ROOT, pathResolve(ROOT, <<"f">>),
            pathResolve(ROOT, AZIPUP), pathResolve(ROOT, ATGZ),
            pathResolve(ROOT, ATXT)}
       |-> IF q \in {<<"/">>, ROOT} THEN "dir" ELSE "file"]

withNode(f, t, kind) ==
    IF kind = "absent" THEN f
    ELSE [q \in DOMAIN f \cup {t} |-> IF q = t THEN kind ELSE f[q]]

ArInit ==
    /\ \E ak \in {"absent", "file", "dir"}, ok \in {"absent", "dir"} :
         fs = withNode(withNode(BaseFs, pathResolve(ROOT, AZIP), ak),
                       pathResolve(ROOT, <<"o">>), ok)
    /\ fs0 = fs
    /\ listing \in Listings
    /\ req = NoReq
    /\ pc = "idle"
    /\ resp = NoArResp
    /\ toolRan = FALSE

\* res.status(code).json({ error })
ArFail(code, msg) ==
    /\ resp' = [status |-> code, error |-> msg]
    /\ pc' = "done"

\* the handler up to its first await: both paths resolved, the type detected,
\* the archive stat'ed, the destination checked or created
ExtractBegin(archiveRaw, destRaw, overwrite) ==
    /\ pc = "idle"
    /\ req' = [path |-> archiveRaw, dest |-> destRaw, overwrite |-> overwrite]
    /\ LET ar == resolvePathFromQuery(archiveRaw)
           dest == resolvePathFromQuery(destRaw)
       IN IF ~ar.ok THEN ArFail(403, "out of root") /\ UNCHANGED fs
          ELSE IF ~dest.ok THEN ArFail(403, "out of root") /\ UNCHANGED fs
          ELSE IF detectArchiveType(ar.target) = None
               THEN ArFail(415, "unsupported archive type") /\ UNCHANGED fs
          ELSE IF statKind(fs, ar.target) = "absent"
               THEN ArFail(400, "archive invalid") /\ UNCHANGED fs
          ELSE IF statKind(fs, ar.target) # "file"
               THEN ArFail(400, "not a file") /\ UNCHANGED fs
          ELSE IF statKind(fs, dest.target) = "file"
               THEN ArFail(400, "dest is not a directory") /\ UNCHANGED fs
          ELSE IF statKind(fs, dest.target) = "dir"
               THEN pc' = "listing" /\ UNCHANGED <<fs, resp>>
          ELSE IF mkdirBlocked(fs, dest.target)
               THEN ArFail(400, "dest invalid") /\ UNCHANGED fs
          ELSE /\ fs' = mkdirp(fs, dest.target)
               /\ pc' = "listing"
               /\ UNCHANGED resp
    /\ UNCHANGED <<fs0, listing, toolRan>>
    /\ UNCHANGED <<sessVars, pathVars, entryVars, restVars>>

\* listArchiveEntries has returned (or thrown): the entry checks, then the
\* extraction tool is started
ExtractListed(listOk) ==
    /\ pc = "listing"
    /\ IF ~listOk
       THEN ArFail(400, "cannot inspect archive safely") /\ UNCHANGED toolRan
       ELSE IF Len(listing) = 0
            THEN ArFail(400, "empty archive") /\ UNCHANGED toolRan
       ELSE IF Len(listing) > MAX_ARCHIVE_ENTRIES
            THEN ArFail(413, "too many entries") /\ UNCHANGED toolRan
       ELSE IF \E i \in 1..Len(listing) : ~isSafeArchiveEntry(listing[i])
            THEN ArFail(400, "unsafe entry path") /\ UNCHANGED toolRan
       ELSE /\ pc' = "extracting"
            /\ toolRan' = TRUE
            /\ UNCHANGED resp
    /\ UNCHANGED <<fs, fs0, listing, req>>
    /\ UNCHANGED <<sessVars, pathVars, entryVars, restVars>>

\* unzip / tar writing one entry below the destination
writeEntry(f, destTarget, e) ==
    LET t == pathResolve(destTarget, e)
        g == mkdirp(f, absPath(SubSeq(segsOf(t), 1, Len(segsOf(t)) - 1)))
    IN IF statKind(g, t) = "dir" THEN g ELSE withNode(g, t, "file")

RECURSIVE writeEntries(_, _, _, _)
writeEntries(f, destTarget, es, k) ==
    IF k = 0 THEN f
    ELSE writeEntry(writeEntries(f, destTarget, es, k - 1), destTarget, es[k])

\* the extraction tool has exited: with success after writing every entry,
\* or with an error after writing the first k of them
ExtractFinish(toolOk, k) ==
    /\ pc = "extracting"
    /\ k <= Len(listing)
    /\ toolOk => k = Len(listing)
    /\ fs' = writeEntries(fs, resolvePathFromQuery(req.dest).target, listing, k)
    /\ IF toolOk
       THEN resp' = [status |-> 200, error |-> ""]
       ELSE resp' = [status |-> 500, error |-> "extract failed"]
    /\ pc' = "done"
    /\ UNCHANGED <<fs0, listing, req, toolRan>>
    /\ UNCHANGED <<sessVars, pathVars, entryVars, restVars>>

ArNext ==
    \/ \E a \in ArPaths, d \in DestPaths, o \in BOOLEAN : ExtractBegin(a, d, o)
    \/ \E listOk \in BOOLEAN : ExtractListed(listOk)
    \/ \E toolOk \in BOOLEAN, k \in 0..MaxListing : ExtractFinish(toolOk, k)

InitArchive == ArInit /\ SessIdle /\ PathIdle /\ EntryIdle /\ RestIdle

SpecArchive == InitArchive /\ [][ArNext]_vars

SomeEntryUnsafe == \E i \in 1..Len(listing) : ~isSafeArchiveEntry(listing[i])

(* C9: the extraction tool is invoked only after every listed entry has      *)
(* passed the safe-entry check; and when a request for an archive with an    *)
(* unsafe entry has been answered, it has failed and the file system is      *)
(* exactly as it was before the request: no file and no directory, the       *)
(* destination directory included, has been created.                         *)
C9_UnsafeLeavesNoTrace ==
    /\ toolRan => ~SomeEntryUnsafe
    /\ (pc = "done" /\ SomeEntryUnsafe) => (resp.status # 200 /\ fs = fs0)

\* the first half alone: the tool never runs on an archive with an unsafe entry
C9_ToolOnlyAfterCheck == toolRan => ~SomeEntryUnsafe

\* ------------------------------------------------------------------------
\* Version control: POST /api/git/reset and POST /api/git/revert
\* ------------------------------------------------------------------------
\* the repository lives in the directory p below the root; q is a plain
\* directory
RepoDir == pathResolve(ROOT, <<"p">>)

\* String.prototype.trim / trimEnd on a character sequence
RECURSIVE trimEnd(_)
trimEnd(t) ==
    IF Len(t) > 0 /\ t[Len(t)] = " " THEN trimEnd(SubSeq(t, 1, Len(t) - 1)) ELSE t

RECURSIVE trimStart(_)
trimStart(t) ==
    IF Len(t) > 0 /\ t[1] = " " THEN trimStart(Tail(t)) ELSE t

trim(t) == trimStart(trimEnd(t))

\* path.relative(ROOT, target).split(path.sep).filter(Boolean)
RECURSIVE commonLen(_, _)
commonLen(a, b) ==
    IF Len(a) = 0 \/ Len(b) = 0 \/ Head(a) # Head(b) THEN 0
    ELSE 1 + commonLen(Tail(a), Tail(b))

relativeParts(from, to) ==
    LET fsg == segsOf(from)
        tsg == segsOf(to)
        k == commonLen(fsg, tsg)
    IN [i \in 1..(Len(fsg) - k) |-> <<".", ".">>] \o SubSeq(tsg, k + 1, Len(tsg))

resolveCwdFromReq(raw) ==
    LET target == pathResolve(ROOT, raw)
        parts == relativeParts(ROOT, target)
        hasHidden == \E i \in 1..Len(parts) :
                        /\ startsWith(parts[i], <<".">>)
                        /\ parts[i] # <<".">>
                        /\ parts[i] # <<".", ".">>
    IN IF trim(raw) = <<".">>
       THEN [ok |-> FALSE, error |-> "forbidden at root", cwd |-> <<>>]
       ELSE IF ~withinRoot(target)
       THEN [ok |-> FALSE, error |-> "out of root", cwd |-> <<>>]
       ELSE IF hasHidden
       THEN [ok |-> FALSE, error |-> "forbidden in hidden dir", cwd |-> <<>>]
       ELSE [ok |-> TRUE, error |-> "", cwd |-> target]

\* detectGitInfo(cwd).isRepo: cwd is inside the work tree of a repository
isRepo(cwd) ==
    \E d \in repos :
        /\ Len(segsOf(d)) <= Len(segsOf(cwd))
        /\ SubSeq(segsOf(cwd), 1, Len(segsOf(d))) = segsOf(d)

\* commit hashes: c1 <- c2 <- c3, c2 <- c4, c5 merges c3 and c4; n1 and n2
\* are the hashes of the commits made later (n1 may already sit on c3)
Hashes == {"c1", "c2", "c3", "c4", "c5", "n1", "n2"}
InitObjects == {"c1", "c2", "c3", "c4", "c5"}
InitParents ==
    [h \in Hashes |->
        CASE h = "c2" -> <<"c1">>
          [] h = "c3" -> <<"c2">>
          [] h = "c4" -> <<"c2">>
          [] h = "c5" -> <<"c3", "c4">>
          [] OTHER -> <<>>]

UpstreamName == "origin/main"

\* request values.  "blob" names an object that is not a commit
CommitArgs == {"", "c1", "c2", "c3", " c3 ", "c5", "n1", "blob", "HEAD",
               UpstreamName}
ModeArgs == {"soft", "hard", "HARD", "mixed"}
\* JSON values of body.confirmHard; 'false' is the string "false"
ConfirmArgs == {"absent", "false", "true", "'false'"}
GitCwdArgs == {<<".">>, <<"p">>, <<"q">>, <<".", ".">>, <<"p", "/", ".", "g">>,
               <<".", "/">>}
\* the limit parameter of the commit list; 0: absent, unparsable or zero
LimitArgs == {0, 1, 9, -5}
\* the results of `git status`: clean, or changes of these kinds
Worktrees == {{}, {"untracked"}, {"modified"}, {"staged"},
              {"untracked", "modified"}}
WorktreeKinds == {"untracked", "modified", "staged"}

\* String(x || '').trim() and .toLowerCase() on the request values
trimArg(x) == CASE x = " c3 " -> "c3" [] OTHER -> x
lowerArg(x) == CASE x = "HARD" -> "hard" [] OTHER -> x

\* Boolean(req.body?.confirmHard)
jsBoolean(v) == v \notin {"absent", "false"}

\* revParse as it would be if every revision string named the root commit
revParseAlways(rev) ==
    IF rev \in objects THEN rev
    ELSE IF rev = "HEAD" THEN head
    ELSE IF rev = UpstreamName /\ upstream # None THEN upstream
    ELSE "c1"

\* the commit a revision string names (rev^{commit}); None when it names none
revParse(rev) ==
    IF rev \in objects THEN rev
    ELSE IF rev = "HEAD" THEN head
    ELSE IF rev = UpstreamName THEN upstream
    ELSE None

\* the commits reachable from c, c included
RECURSIVE reachable(_)
reachable(c) ==
    {c} \cup UNION {reachable(parents[c][i]) : i \in 1..Len(parents[c])}

\* git merge-base --is-ancestor a b, on resolved commits
isAncestor(a, b) == a # None /\ b # None /\ a \in reachable(b)

\* git status --porcelain, one line per kind of change
porcelainLine(k) ==
    CASE k = "untracked" -> <<"?", "?", " ", "u">>
      [] k = "modified" -> <<" ", "M", " ", "t">>
      [] OTHER -> <<"M", " ", " ", "s">>

hasTrackedChangesAnyLine(wt) == wt # {}

hasTrackedChanges(wt) ==
    \E k \in wt : ~startsWith(trimEnd(porcelainLine(k)), <<"?", "?", " ">>)

resetForbiddenNever(commit, isOnUpstream, upstreamHead) == FALSE

\* l.1190-1193: a published target other than the upstream head
resetForbidden(commit, isOnUpstream, upstreamHead) ==
    isOnUpstream /\ commit # upstreamHead

GitInit ==
    /\ gitAvailable \in BOOLEAN
    /\ objects \in {InitObjects, InitObjects \cup {"n1"}}
    /\ parents = [InitParents EXCEPT
                    !["n1"] = IF "n1" \in objects THEN <<"c3">> ELSE <<>>]
    /\ head \in objects
    /\ upstream \in objects \cup {None}
    /\ worktree \in Worktrees
    \* without git the repository is never looked at: one repository will do
    /\ ~gitAvailable => /\ objects = InitObjects
                        /\ head = "c1"
                        /\ upstream = None
                        /\ worktree = {}
    /\ gitResp = NoGitResp
    /\ gitOps = MaxGitOps
    /\ repos = {RepoDir}

\* at: the directory the request's `git -C` commands ran in, <<>> when none ran
GitAnswer(op, cwdRaw, mode, commit, confirm, status, error, ran, upHead, at) ==
    gitResp' = [op |-> op, cwd |-> cwdRaw, mode |-> mode, commit |-> commit,
                confirm |-> confirm, status |-> status, error |-> error,
                ran |-> ran, upstreamHead |-> upHead, at |-> at,
                commits |-> <<>>, limit |-> 0]

\* POST /api/git/reset.  toolOk: whether `git reset` itself succeeds
Reset(cwdRaw, modeRaw, commitRaw, confirmRaw, toolOk) ==
    LET r == resolveCwdFromReq(cwdRaw)
        mode == lowerArg(modeRaw)
        commit == trimArg(commitRaw)
        confirmHard == jsBoolean(confirmRaw)
        target == revParse(commit)
        isOnUpstream == isAncestor(target, upstream)
        upstreamHead == upstream
        RejectEarly(status, error) ==
            /\ GitAnswer("reset", cwdRaw, modeRaw, commitRaw, confirmRaw,
                         status, error, FALSE, None, <<>>)
            /\ UNCHANGED <<head, worktree>>
        Reject(status, error, upHead) ==
            /\ GitAnswer("reset", cwdRaw, modeRaw, commitRaw, confirmRaw,
                         status, error, FALSE, upHead, r.cwd)
            /\ UNCHANGED <<head, worktree>>
    IN
    /\ gitOps > 0
    /\ gitOps' = gitOps - 1
    /\ UNCHANGED <<gitAvailable, objects, parents, upstream, repos>>
    /\ UNCHANGED <<sessVars, pathVars, entryVars, arVars, treeVars, upVars, lateVars>>
    /\ IF ~r.ok THEN RejectEarly(403, r.error)
       ELSE IF mode # "soft" /\ mode # "hard"
            THEN RejectEarly(400, "mode must be soft|hard")
       ELSE IF commit = "" THEN RejectEarly(400, "missing commit")
       ELSE IF ~gitAvailable THEN RejectEarly(400, "git not available")
       ELSE IF ~isRepo(r.cwd) THEN Reject(400, "not a git repo", None)
       ELSE IF mode = "hard" /\ ~confirmHard
            THEN Reject(400, "hard reset requires confirmHard=true", None)
       ELSE IF target = None THEN Reject(400, "invalid commit", None)
       ELSE IF upstream = None THEN Reject(400, "upstream not configured", None)
       ELSE IF ~isAncestor(target, head)
            THEN Reject(400, "commit not reachable from HEAD", None)
       ELSE IF resetForbidden(commit, isOnUpstream, upstreamHead)
            THEN Reject(400, "only upstream head can be reset to when pushed",
                        upstreamHead)
       ELSE IF ~toolOk
            THEN /\ GitAnswer("reset", cwdRaw, modeRaw, commitRaw, confirmRaw,
                              500, "git reset failed", TRUE, upstreamHead, r.cwd)
                 /\ UNCHANGED <<head, worktree>>
       ELSE /\ head' = target
            /\ worktree' = IF mode = "hard" THEN worktree \cap {"untracked"}
                           ELSE IF target # head THEN worktree \cup {"staged"}
                           ELSE worktree
            /\ GitAnswer("reset", cwdRaw, modeRaw, commitRaw, confirmRaw,
                         200, "", TRUE, upstreamHead, r.cwd)

\* POST /api/git/revert.  outcome: how `git revert --no-edit` ends
Revert(cwdRaw, commitRaw, outcome) ==
    LET r == resolveCwdFromReq(cwdRaw)
        commit == trimArg(commitRaw)
        target == revParse(commit)
        parentCount == Len(parents[target])
        fresh == IF "n1" \notin objects THEN "n1" ELSE "n2"
        RejectEarly(status, error) ==
            /\ GitAnswer("revert", cwdRaw, "", commitRaw, "", status, error,
                         FALSE, None, <<>>)
            /\ UNCHANGED <<objects, parents, head, worktree>>
        Reject(status, error) ==
            /\ GitAnswer("revert", cwdRaw, "", commitRaw, "", status, error,
                         FALSE, None, r.cwd)
            /\ UNCHANGED <<objects, parents, head, worktree>>
    IN
    /\ gitOps > 0
    /\ gitOps' = gitOps - 1
    /\ UNCHANGED <<gitAvailable, upstream, repos>>
    /\ UNCHANGED <<sessVars, pathVars, entryVars, arVars, treeVars, upVars, lateVars>>
    /\ IF ~r.ok THEN RejectEarly(403, r.error)
       ELSE IF commit = "" THEN RejectEarly(400, "missing commit")
       ELSE IF ~gitAvailable THEN RejectEarly(400, "git not available")
       ELSE IF ~isRepo(r.cwd) THEN Reject(400, "not a git repo")
       ELSE IF target = None THEN Reject(400, "invalid commit")
       ELSE IF ~isAncestor(target, head)
            THEN Reject(400, "commit not reachable from HEAD")
       ELSE IF hasTrackedChanges(worktree)
            THEN Reject(400, "working tree not clean")
       ELSE IF parentCount > 1
            THEN Reject(400, "merge commit revert not supported")
       ELSE IF outcome = "conflict"
            THEN /\ GitAnswer("revert", cwdRaw, "", commitRaw, "", 409,
                              "revert conflict", TRUE, None, r.cwd)
                 /\ worktree' = worktree \cup {"modified"}
                 /\ UNCHANGED <<objects, parents, head>>
       ELSE IF outcome = "fail"
            THEN /\ GitAnswer("revert", cwdRaw, "", commitRaw, "", 500,
                              "git revert failed", TRUE, None, r.cwd)
                 /\ UNCHANGED <<objects, parents, head, worktree>>
       ELSE /\ objects' = objects \cup {fresh}
            /\ parents' = [parents EXCEPT ![fresh] = <<head>>]
            /\ head' = fresh
            /\ GitAnswer("revert", cwdRaw, "", commitRaw, "", 200, "", TRUE,
                         upstream, r.cwd)
            /\ UNCHANGED worktree

\* ------------------------------------------------------------------------
\* Version control: GET /api/git/info, GET /api/git/commits, POST /api/git/init
\* ------------------------------------------------------------------------
LOG_LIMIT_DEFAULT == 2      \* 50 in the code
LOG_LIMIT_MAX == 3          \* 200 in the code
REV_LIST_MAX == 3           \* --max-count=5000 in the code

\* the directories below the root: the root, the repository p, the plain q
GitDirs == {pathResolve(ROOT, <<".">>), RepoDir, pathResolve(ROOT, <<"q">>)}

\* the commits in the order git lists them, the latest first
LogOrder == <<"n2", "n1", "c5", "c4", "c3", "c2", "c1">>

firstN(s, n) == SubSeq(s, 1, IF Len(s) < n THEN Len(s) ELSE n)

\* Math.min(200, Math.max(1, Number.parseInt(limit, 10) || 50))
logLimit(x) ==
    LET wanted == parseIntOr(x, LOG_LIMIT_DEFAULT)
        atLeastOne == IF wanted < 1 THEN 1 ELSE wanted
    IN IF atLeastOne > LOG_LIMIT_MAX THEN LOG_LIMIT_MAX ELSE atLeastOne

\* git log -n <n>: the hashes of the n latest commits reachable from h
gitLog(h, n) == firstN(SelectSeq(LogOrder, LAMBDA c : c \in reachable(h)), n)

\* revList as it would be if it stopped after one commit
revListOne(up, h) ==
    firstN(SelectSeq(LogOrder,
                     LAMBDA c : c \in reachable(h) /\ c \notin reachable(up)), 1)

\* git rev-list --max-count=5000 <upstream>..HEAD
revList(up, h) ==
    firstN(SelectSeq(LogOrder,
                     LAMBDA c : c \in reachable(h) /\ c \notin reachable(up)),
           REV_LIST_MAX)

\* the entries of the answer when an upstream is configured
withUpstream(hashes, unpushed, upstreamHead) ==
    [i \in 1..Len(hashes) |->
        [hash |-> hashes[i],
         pushed |-> IF \E j \in 1..Len(unpushed) : unpushed[j] = hashes[i]
                    THEN "false" ELSE "true",
         isUpstreamHead |-> IF upstreamHead # None /\ hashes[i] = upstreamHead
                            THEN "true" ELSE "false"]]

\* the entries of the answer when none is
withoutUpstream(hashes) ==
    [i \in 1..Len(hashes) |->
        [hash |-> hashes[i], pushed |-> "null", isUpstreamHead |-> "null"]]

\* GET /api/git/info
Info(cwdRaw) ==
    LET r == resolveCwdFromReq(cwdRaw)
    IN
    /\ gitOps > 0
    /\ gitOps' = gitOps - 1
    /\ UNCHANGED <<gitAvailable, objects, parents, head, upstream, worktree, repos>>
    /\ UNCHANGED <<sessVars, pathVars, entryVars, arVars, treeVars, upVars, lateVars>>
    /\ IF ~r.ok
       THEN GitAnswer("info", cwdRaw, "", "", "", 403, r.error, FALSE, None, <<>>)
       ELSE IF ~gitAvailable
       THEN GitAnswer("info", cwdRaw, "", "", "", 200, "", FALSE, None, <<>>)
       ELSE GitAnswer("info", cwdRaw, "", "", "", 200, "", FALSE, None, r.cwd)

\* GET /api/git/commits
Commits(cwdRaw, limitRaw) ==
    LET r == resolveCwdFromReq(cwdRaw)
        limit == logLimit(limitRaw)
        \* only the repository in p has commits
        hasCommits == RepoDir \in repos /\ startsWith(r.cwd, RepoDir)
        upstreamHead == upstream
        hashes == gitLog(head, limit)
        Answer(status, error, at, upHead, commits) ==
            gitResp' = [NoGitResp EXCEPT
                          !.op = "commits", !.cwd = cwdRaw, !.limit = limitRaw,
                          !.status = status, !.error = error, !.at = at,
                          !.upstreamHead = upHead, !.commits = commits]
    IN
    /\ gitOps > 0
    /\ gitOps' = gitOps - 1
    /\ UNCHANGED <<gitAvailable, objects, parents, head, upstream, worktree, repos>>
    /\ UNCHANGED <<sessVars, pathVars, entryVars, arVars, treeVars, upVars, lateVars>>
    /\ IF ~r.ok THEN Answer(403, r.error, <<>>, None, <<>>)
       ELSE IF ~gitAvailable THEN Answer(200, "", <<>>, None, <<>>)
       ELSE IF ~isRepo(r.cwd) THEN Answer(200, "", r.cwd, None, <<>>)
       ELSE IF ~hasCommits
       THEN \* git log fails: "does not have any commits yet"
            Answer(200, "", r.cwd, None, <<>>)
       ELSE IF upstream # None
       THEN Answer(200, "", r.cwd, upstreamHead,
                   withUpstream(hashes, revList(upstream, head), upstreamHead))
       ELSE Answer(200, "", r.cwd, None, withoutUpstream(hashes))

\* POST /api/git/init
RepoInit(cwdRaw) ==
    LET r == resolveCwdFromReq(cwdRaw)
        Reject(status, error, at) ==
            /\ GitAnswer("init", cwdRaw, "", "", "", status, error, FALSE, None, at)
            /\ UNCHANGED repos
    IN
    /\ gitOps > 0
    /\ gitOps' = gitOps - 1
    /\ UNCHANGED <<gitAvailable, objects, parents, head, upstream, worktree>>
    /\ UNCHANGED <<sessVars, pathVars, entryVars, arVars, treeVars, upVars, lateVars>>
    /\ IF ~r.ok THEN Reject(403, r.error, <<>>)
       ELSE IF r.cwd \notin GitDirs THEN Reject(400, "cwd not found", <<>>)
       ELSE IF ~gitAvailable THEN Reject(400, "git not available", <<>>)
       ELSE IF isRepo(r.cwd) THEN Reject(200, "", r.cwd)
       ELSE /\ repos' = repos \cup {r.cwd}
            /\ GitAnswer("init", cwdRaw, "", "", "", 200, "", TRUE, None, r.cwd)

GitNext ==
    \/ /\ gitOps > 0
       /\ \E c \in GitCwdArgs, m \in ModeArgs, k \in CommitArgs,
             f \in ConfirmArgs, ok \in BOOLEAN : Reset(c, m, k, f, ok)
    \/ /\ gitOps > 0
       /\ \E c \in GitCwdArgs, k \in CommitArgs,
             o \in {"ok", "conflict", "fail"} : Revert(c, k, o)
    \/ /\ gitOps > 0
       /\ \E c \in GitCwdArgs : Info(c)
    \/ /\ gitOps > 0
       /\ \E c \in GitCwdArgs, n \in LimitArgs : Commits(c, n)
    \/ /\ gitOps > 0
       /\ \E c \in GitCwdArgs : RepoInit(c)

InitGit ==
    GitInit /\ SessIdle /\ PathIdle /\ EntryIdle /\ ArIdle /\ TreeIdle /\ UpIdle /\ LateIdle

SpecGit == InitGit /\ [][GitNext]_vars

\* the request of the step being taken, and what it names
ResetStep == gitOps' < gitOps /\ gitResp'.op = "reset"
RevertStep == gitOps' < gitOps /\ gitResp'.op = "revert"
stepTarget == revParse(trimArg(gitResp'.commit))
stepGate ==
    /\ resolveCwdFromReq(gitResp'.cwd).ok
    /\ isRepo(resolveCwdFromReq(gitResp'.cwd).cwd)
    /\ gitAvailable

\* c is published: an ancestor of, or equal to, the upstream head
published(c) == upstream # None /\ c # None /\ c \in reachable(upstream)

(* C11: a Reset whose target is published (an ancestor of or equal to the    *)
(* upstream head) runs git reset only when the target is the upstream head;  *)
(* for an older published target it is rejected and HEAD, like the working   *)
(* tree, is unchanged; and after a successful Reset the new HEAD is never a  *)
(* strict ancestor of the upstream head.                                     *)
C11_Step ==
    ResetStep =>
        /\ (published(stepTarget) /\ gitResp'.ran) => stepTarget = upstream
        /\ (published(stepTarget) /\ stepTarget # upstream)
           => /\ gitResp'.status \in {400, 403}
              /\ ~gitResp'.ran
              /\ UNCHANGED <<head, worktree, objects, parents>>
        /\ gitResp'.status = 200
           => /\ head' = stepTarget
              /\ ~(head' # upstream /\ published(head'))

C11_NoPublishedRewrite == [][C11_Step]_vars

C11_Witness ==
    /\ gitResp.op = "reset"
    /\ gitResp.error = "only upstream head can be reset to when pushed"
    /\ lowerArg(gitResp.mode) = "hard"
    /\ gitResp.confirm = "true"
    /\ gitResp.commit \in objects
    /\ gitResp.commit # upstream

(* C12: a Reset request with mode 'hard' whose confirmHard is not true is    *)
(* rejected, whatever the repository state and the target commit, and        *)
(* leaves HEAD, the index and the working tree as they were.                 *)
C12_Step ==
    (ResetStep /\ lowerArg(gitResp'.mode) = "hard" /\ gitResp'.confirm # "true")
    => /\ gitResp'.status # 200
       /\ ~gitResp'.ran
       /\ UNCHANGED <<head, worktree>>

C12_HardNeedsConfirm == [][C12_Step]_vars

\* the same for the values of confirmHard that JavaScript takes as false
C12_FalsyStep ==
    (ResetStep /\ lowerArg(gitResp'.mode) = "hard"
       /\ gitResp'.confirm \in {"absent", "false"})
    => /\ gitResp'.status # 200
       /\ ~gitResp'.ran
       /\ UNCHANGED <<head, worktree>>

C12_FalsyRejected == [][C12_FalsyStep]_vars

(* C13: a Revert request that reaches the repository runs git revert if and  *)
(* only if the commit names a commit object, is reachable from HEAD, the     *)
(* working tree has no tracked modification (untracked files do not count)   *)
(* and the commit has at most one parent; otherwise it is rejected and       *)
(* nothing changes.  Neither the upstream nor the push state of the commit   *)
(* enters the decision.                                                      *)
C13_Step ==
    (RevertStep /\ stepGate /\ trimArg(gitResp'.commit) # "")
    => /\ gitResp'.ran
          <=> /\ stepTarget # None
              /\ stepTarget \in reachable(head)
              /\ worktree \cap {"modified", "staged"} = {}
              /\ Len(parents[stepTarget]) <= 1
       /\ ~gitResp'.ran
          => /\ gitResp'.status = 400
             /\ UNCHANGED <<head, worktree, objects, parents>>

C13_RevertDecision == [][C13_Step]_vars

C13_Witness ==
    /\ gitResp.op = "revert"
    /\ gitResp.status = 200
    /\ "untracked" \in worktree
    /\ upstream # None
    /\ revParse(trimArg(gitResp.commit)) \in reachable(upstream)

\* ------------------------------------------------------------------------
\* Merge / copy / move engine: POST /api/fs/copy and POST /api/fs/move
\* ------------------------------------------------------------------------
\* A path is the sequence of its segments below "/"; a node is a directory,
\* a regular file with its content, a symbolic link or a fifo.
DirNode == [kind |-> "dir", data |-> ""]
FileNode(d) == [kind |-> "file", data |-> d]
LinkNode == [kind |-> "symlink", data |-> ""]
FifoNode == [kind |-> "fifo", data |-> ""]

RootSegs == segsOf(ROOT)

\* p is q or lies below q
isUnder(p, q) == Len(q) <= Len(p) /\ SubSeq(p, 1, Len(q)) = q

existsSync(f, p) == p \in DOMAIN f
kindAt(f, p) == IF p \in DOMAIN f THEN f[p].kind ELSE "absent"
dirname(p) == SubSeq(p, 1, Len(p) - 1)

\* fs.rmSync(p, { force: true, recursive: true })
rmSync(f, p) == [q \in {x \in DOMAIN f : ~isUnder(x, p)} |-> f[q]]

putNode(f, p, node) ==
    [q \in DOMAIN f \cup {p} |-> IF q = p THEN node ELSE f[q]]

\* the state the engine threads through its calls: the file tree, the stats
\* object and the exception thrown, if any
Thrown(st, code, msg) == [st EXCEPT !.code = code, !.err = msg]
Failed(st) == st.err # ""

\* fs.mkdirSync(p, { recursive: true })
prefixes(p) == {SubSeq(p, 1, k) : k \in Len(RootSegs)..Len(p)}

mkdirSync(st, p) ==
    IF Len(p) > MaxPathSegs THEN Thrown(st, "ENAMETOOLONG", "name too long")
    ELSE IF \E q \in prefixes(p) : kindAt(st.fs, q) \notin {"absent", "dir"}
    THEN Thrown(st, "ENOTDIR", "not a directory")
    ELSE [st EXCEPT !.fs = [q \in DOMAIN st.fs \cup prefixes(p) |->
                               IF q \in DOMAIN st.fs THEN st.fs[q] ELSE DirNode]]

ensureDirExists(st, dirPath) ==
    IF existsSync(st.fs, dirPath)
    THEN IF kindAt(st.fs, dirPath) # "dir"
         THEN Thrown(st, "", "dest is not a directory")
         ELSE st
    ELSE mkdirSync(st, dirPath)

\* fs.copyFileSync(src, dest)
copyFileSync(st, src, dest) ==
    IF kindAt(st.fs, src) # "file" \/ kindAt(st.fs, dirname(dest)) # "dir"
    THEN Thrown(st, "ENOENT", "no such file or directory")
    ELSE [st EXCEPT !.fs = putNode(st.fs, dest, st.fs[src])]

\* fs.readdirSync(dir, { withFileTypes: true }): the entries of dir, in the
\* order the file system lists them
readdirSync(f, dir, order) ==
    LET names == SelectSeq(order, LAMBDA n : Append(dir, n) \in DOMAIN f)
    IN [i \in 1..Len(names) |->
           [name |-> names[i], kind |-> f[Append(dir, names[i])].kind]]

\* a copyFileWithPolicy that treats 'skip' as 'overwrite'
copyFileSkipOverwrites(st, src, dest, policy) ==
    IF existsSync(st.fs, dest) /\ policy = "error"
    THEN Thrown(st, "EEXIST", "dest exists")
    ELSE LET cleared == IF existsSync(st.fs, dest)
                        THEN [st EXCEPT !.fs = rmSync(st.fs, dest),
                                        !.stats.overwritten = @ + 1]
                        ELSE st
             copied == copyFileSync(cleared, src, dest)
         IN IF Failed(copied) THEN copied
            ELSE [copied EXCEPT !.stats.done = @ + 1]

copyFileWithPolicy(st, src, dest, policy) ==
    IF existsSync(st.fs, dest) /\ policy = "skip"
    THEN [st EXCEPT !.stats.skipped = @ + 1]
    ELSE IF existsSync(st.fs, dest) /\ policy = "error"
    THEN Thrown(st, "EEXIST", "dest exists")
    ELSE LET cleared == IF existsSync(st.fs, dest)
                        THEN [st EXCEPT !.fs = rmSync(st.fs, dest),
                                        !.stats.overwritten = @ + 1]
                        ELSE st
             copied == copyFileSync(cleared, src, dest)
         IN IF Failed(copied) THEN copied
            ELSE [copied EXCEPT !.stats.done = @ + 1]

RECURSIVE copyDirMerge(_, _, _, _, _)
RECURSIVE copyEntries(_, _, _, _, _, _)

\* the loop of copyDirMerge over the entries readdirSync returned
copyEntries(st, entries, srcDir, destDir, policy, order) ==
    IF Failed(st) \/ Len(entries) = 0 THEN st
    ELSE LET ent == Head(entries)
             srcPath == Append(srcDir, ent.name)
             destPath == Append(destDir, ent.name)
             blocked == /\ existsSync(st.fs, destPath)
                        /\ kindAt(st.fs, destPath) # "dir"
             after ==
                IF ent.kind = "symlink"
                THEN Thrown(st, "ESYMLINK", "symlink not supported")
                ELSE IF ent.kind = "dir"
                THEN IF blocked /\ policy = "skip"
                     THEN [st EXCEPT !.stats.skipped = @ + 1]
                     ELSE IF blocked /\ policy = "error"
                     THEN Thrown(st, "EEXIST", "dest exists and is not directory")
                     ELSE copyDirMerge(
                            IF blocked
                            THEN [st EXCEPT !.fs = rmSync(st.fs, destPath),
                                            !.stats.overwritten = @ + 1]
                            ELSE st,
                            srcPath, destPath, policy, order)
                ELSE IF ent.kind = "file"
                THEN copyFileWithPolicy(st, srcPath, destPath, policy)
                ELSE Thrown(st, "EUNSUPPORTED", "unsupported entry type")
         IN copyEntries(after, Tail(entries), srcDir, destDir, policy, order)

copyDirMerge(st, srcDir, destDir, policy, order) ==
    LET made == ensureDirExists(st, destDir)
    IN IF Failed(made) THEN made
       ELSE IF kindAt(made.fs, srcDir) # "dir"
       THEN Thrown(made, "ENOENT", "no such file or directory")
       ELSE copyEntries(made, readdirSync(made.fs, srcDir, order), srcDir,
                        destDir, policy, order)

\* fs.renameSync(a, b): the subtree at a becomes the subtree at b.  It fails
\* across devices (renameOk false), into its own subtree, or without a source
canRename(f, a, b, renameOk) ==
    /\ renameOk
    /\ existsSync(f, a)
    /\ ~isUnder(b, a)
    /\ kindAt(f, dirname(b)) = "dir"
    /\ Len(b) <= MaxPathSegs

renameSync(f, a, b) ==
    LET kept == {q \in DOMAIN f : ~isUnder(q, a) /\ ~isUnder(q, b)}
        moved == {b \o SubSeq(q, Len(a) + 1, Len(q)) : q \in {x \in DOMAIN f : isUnder(x, a)}}
    IN [q \in kept \cup moved |->
           IF q \in moved THEN f[a \o SubSeq(q, Len(b) + 1, Len(q))] ELSE f[q]]

moveFileWithPolicy(st, src, dest, policy, renameOk) ==
    IF existsSync(st.fs, dest) /\ policy = "skip"
    THEN [st EXCEPT !.stats.skipped = @ + 1]
    ELSE IF existsSync(st.fs, dest) /\ policy = "error"
    THEN Thrown(st, "EEXIST", "dest exists")
    ELSE LET cleared == IF existsSync(st.fs, dest)
                        THEN [st EXCEPT !.fs = rmSync(st.fs, dest),
                                        !.stats.overwritten = @ + 1]
                        ELSE st
             copied == copyFileSync(cleared, src, dest)
         IN IF canRename(cleared.fs, src, dest, renameOk)
            THEN [cleared EXCEPT !.fs = renameSync(cleared.fs, src, dest),
                                 !.stats.done = @ + 1]
            ELSE IF Failed(copied) THEN copied
            ELSE [copied EXCEPT !.stats.done = @ + 1,
                                !.fs = rmSync(copied.fs, src)]

RECURSIVE moveDirMerge(_, _, _, _, _, _)
RECURSIVE moveEntries(_, _, _, _, _, _, _)

moveEntries(st, entries, srcDir, destDir, policy, order, renameOk) ==
    IF Failed(st) \/ Len(entries) = 0 THEN st
    ELSE LET ent == Head(entries)
             srcPath == Append(srcDir, ent.name)
             destPath == Append(destDir, ent.name)
             blocked == /\ existsSync(st.fs, destPath)
                        /\ kindAt(st.fs, destPath) # "dir"
             after ==
                IF ent.kind = "symlink"
                THEN Thrown(st, "ESYMLINK", "symlink not supported")
                ELSE IF ent.kind = "dir"
                THEN IF blocked /\ policy = "skip"
                     THEN [st EXCEPT !.stats.skipped = @ + 1]
                     ELSE IF blocked /\ policy = "error"
                     THEN Thrown(st, "EEXIST", "dest exists and is not directory")
                     ELSE moveDirMerge(
                            IF blocked
                            THEN [st EXCEPT !.fs = rmSync(st.fs, destPath),
                                            !.stats.overwritten = @ + 1]
                            ELSE st,
                            srcPath, destPath, policy, order, renameOk)
                ELSE IF ent.kind = "file"
                THEN moveFileWithPolicy(st, srcPath, destPath, policy, renameOk)
                ELSE Thrown(st, "EUNSUPPORTED", "unsupported entry type")
         IN moveEntries(after, Tail(entries), srcDir, destDir, policy, order,
                        renameOk)

\* fs.rmdirSync(dir) when readdirSync(dir) is empty; errors are swallowed
\* rmdirIfEmpty as it would be if it removed the directory with what is left
rmdirWithContent(st, dir) ==
    IF kindAt(st.fs, dir) = "dir"
    THEN [st EXCEPT !.fs = rmSync(st.fs, dir)]
    ELSE st

rmdirIfEmpty(st, dir) ==
    IF kindAt(st.fs, dir) = "dir"
       /\ ~\E q \in DOMAIN st.fs : q # dir /\ isUnder(q, dir)
    THEN [st EXCEPT !.fs = rmSync(st.fs, dir)]
    ELSE st

moveDirMerge(st, srcDir, destDir, policy, order, renameOk) ==
    IF ~existsSync(st.fs, destDir) /\ canRename(st.fs, srcDir, destDir, renameOk)
    THEN [st EXCEPT !.fs = renameSync(st.fs, srcDir, destDir),
                    !.stats.done = @ + 1]
    ELSE LET made == ensureDirExists(st, destDir)
             walked == moveEntries(made, readdirSync(made.fs, srcDir, order),
                                   srcDir, destDir, policy, order, renameOk)
         IN IF Failed(made) THEN made
            ELSE IF kindAt(made.fs, srcDir) # "dir"
            THEN Thrown(made, "ENOENT", "no such file or directory")
            ELSE IF Failed(walked) THEN walked
            ELSE rmdirIfEmpty(walked, srcDir)

\* validateFileName(name) on a character string
validateFileName(name) ==
    LET n == trim(name)
    IN IF n = <<>> THEN [ok |-> FALSE, error |-> "name required", name |-> <<>>]
       ELSE IF n = <<".">> \/ n = <<".", ".">>
       THEN [ok |-> FALSE, error |-> "invalid name", name |-> <<>>]
       ELSE IF \E i \in 1..Len(n) : n[i] = "/" \/ n[i] = "\\"
       THEN [ok |-> FALSE, error |-> "name must not contain path separators",
             name |-> <<>>]
       ELSE IF \E i \in 1..Len(n) : n[i] = "NUL"
       THEN [ok |-> FALSE, error |-> "invalid name", name |-> <<>>]
       ELSE [ok |-> TRUE, error |-> "", name |-> n]

\* path.basename of an absolute path
basename(t) == IF Len(segsOf(t)) = 0 THEN <<>> ELSE segsOf(t)[Len(segsOf(t))]

\* path.relative(from, to) as a string, for paths given by their segments
relativeString(from, to) ==
    LET k == commonLen(from, to)
        parts == [i \in 1..(Len(from) - k) |-> <<".", ".">>]
                 \o SubSeq(to, k + 1, Len(to))
    IN IF Len(parts) = 0 THEN <<>> ELSE SubSeq(joinSegs(parts), 2, Len(joinSegs(parts)))

isSubPathBySegments(child, parent) == isUnder(child, parent)

isSubPath(child, parent) ==
    LET rel == relativeString(parent, child)
    IN IF rel = <<>> THEN TRUE
       ELSE ~startsWith(rel, <<".", ".">>) /\ ~startsWith(rel, <<"/">>)

\* isRootPath as it would be if it never recognised the root
isRootPathNever(target) == FALSE

isRootPath(target) == pathResolve(<<"/">>, target) = pathResolve(<<"/">>, ROOT)

\* the engine state a handler starts from
Fresh(f) == [fs |-> f, stats |-> NoStats, code |-> "", err |-> ""]

Reply(st, status, error, counts) ==
    [st |-> st, status |-> status, error |-> error, counts |-> counts]

\* a catch block that does not look at the error's code
CaughtAsFailure(st) == Reply(st, 500, st.err, FALSE)

\* the catch block of both handlers
Caught(st) ==
    IF st.code = "EEXIST" THEN Reply(st, 409, "dest exists", FALSE)
    ELSE Reply(st, 500, st.err, FALSE)

\* the end of the try block and its catch: the answer for the engine's result
treeAnswer(ran) ==
    IF Failed(ran) THEN Caught(ran)
    ELSE Reply(ran, 200, "", TRUE)

\* the try block of both handlers, once the destination directory is made
\* and the source is stat'ed
treeTry(op, srcSegs, dst, kind, policy, order, renameOk, made) ==
    IF Failed(made) THEN Caught(made)
    ELSE IF kind = "absent"
    THEN Caught(Thrown(made, "ENOENT", "no such file or directory"))
    ELSE IF kind = "dir" /\ isSubPath(dst, srcSegs)
    THEN Reply(made, 400, IF op = "copy"
                          THEN "cannot copy directory into itself"
                          ELSE "cannot move directory into itself", FALSE)
    ELSE IF kind = "file" /\ dst = srcSegs
    THEN Reply(made, 400, "dest equals src", FALSE)
    ELSE IF kind \notin {"file", "dir"}
    THEN Reply(made, 400, "unsupported type", FALSE)
    ELSE treeAnswer(
           IF kind = "file"
           THEN IF op = "copy"
                THEN copyFileWithPolicy(made, srcSegs, dst, policy)
                ELSE moveFileWithPolicy(made, srcSegs, dst, policy, renameOk)
           ELSE IF op = "copy"
                THEN copyDirMerge(made, srcSegs, dst, policy, order)
                ELSE moveDirMerge(made, srcSegs, dst, policy, order, renameOk))

\* ensureDirExists(destDir.target) and fs.statSync(src.target)
treeMade(op, srcSegs, dst, policy, order, renameOk, made) ==
    treeTry(op, srcSegs, dst, kindAt(made.fs, srcSegs), policy, order, renameOk,
            made)

\* the checks of both handlers on the resolved paths, the policy and the name
treeChecked(op, src, destDir, name, dst, policy, order, renameOk, st0) ==
    IF ~src.ok THEN Reply(st0, 403, src.error, FALSE)
    ELSE IF op = "move" /\ isRootPath(src.target)
    THEN Reply(st0, 403, "forbidden at root", FALSE)
    ELSE IF ~destDir.ok THEN Reply(st0, 403, destDir.error, FALSE)
    ELSE IF policy \notin {"overwrite", "skip", "error"}
    THEN Reply(st0, 400, "invalid conflict policy", FALSE)
    ELSE IF ~name.ok THEN Reply(st0, 400, name.error, FALSE)
    ELSE IF ~withinRoot(absPath(dst)) THEN Reply(st0, 403, "out of root", FALSE)
    ELSE treeMade(op, segsOf(src.target), dst, policy, order, renameOk,
                  ensureDirExists(st0, segsOf(destDir.target)))

\* dst = path.join(destDir.target, name)
treeNamed(op, src, destDir, name, policy, order, renameOk, st0) ==
    treeChecked(op, src, destDir, name, Append(segsOf(destDir.target), name.name),
                policy, order, renameOk, st0)

\* destName given: validateFileName(destName); else path.basename(src.target)
treeResolved(op, src, destDir, destNameRaw, policy, order, renameOk, st0) ==
    treeNamed(op, src, destDir,
              IF destNameRaw # <<>> THEN validateFileName(destNameRaw)
              ELSE [ok |-> TRUE, error |-> "", name |-> basename(src.target)],
              policy, order, renameOk, st0)

\* POST /api/fs/copy and POST /api/fs/move, from the request to the response
treeHandle(op, srcRaw, destDirRaw, destNameRaw, policyRaw, order, renameOk, f) ==
    treeResolved(op, resolvePathFromQuery(srcRaw), resolvePathFromQuery(destDirRaw),
                 destNameRaw, IF policyRaw = "" THEN "error" ELSE policyRaw,
                 order, renameOk, Fresh(f))

\* names of entries, as character strings
NmS == <<"s">>
NmT == <<"t">>
NmX == <<"x">>
NmD == <<"d">>
NmY == <<"y">>
NmL == <<"l">>
NmN == <<"n">>
NmDots == <<".", ".", "b">>

\* the two orders in which a directory may list its entries
Orders == {<<NmD, NmL, NmX, NmY, NmS, NmT, NmN, NmDots>>,
           <<NmX, NmY, NmL, NmD, NmT, NmS, NmDots, NmN>>}

TreeSrcArgs == {<<"s">>, <<"s", "/", "x">>, <<".">>}
TreeDestDirArgs == {<<".">>, <<"t">>, <<"s">>, <<"s", "/", "n">>,
                    <<"s", "/", ".", ".", "b">>}
TreeDestNameArgs == {<<>>, <<"t">>}
PolicyArgs == {"", "overwrite", "skip", "error"}

\* the file trees a request can meet: below the root a source directory s
\* (a file x, perhaps a directory d holding y, perhaps a symbolic link or a
\* fifo l) and perhaps a destination t (a file, or a directory with entries
\* that collide with those of s)
treeOf(nodes) == [q \in {n[1] : n \in nodes} |-> (CHOOSE n \in nodes : n[1] = q)[2]]

SrcD == {{}, {<<RootSegs \o <<NmS, NmD>>, DirNode>>,
              <<RootSegs \o <<NmS, NmD, NmY>>, FileNode("A")>>}}
SrcL == {{}, {<<RootSegs \o <<NmS, NmL>>, LinkNode>>},
             {<<RootSegs \o <<NmS, NmL>>, FifoNode>>}}
DstX == {{}, {<<RootSegs \o <<NmT, NmX>>, FileNode("B")>>},
             {<<RootSegs \o <<NmT, NmX>>, DirNode>>}}
DstD == {{}, {<<RootSegs \o <<NmT, NmD>>, FileNode("B")>>},
             {<<RootSegs \o <<NmT, NmD>>, DirNode>>,
              <<RootSegs \o <<NmT, NmD, NmY>>, FileNode("B")>>}}
DstT == {{}, {<<RootSegs \o <<NmT>>, FileNode("B")>>}}
         \cup {{<<RootSegs \o <<NmT>>, DirNode>>} \cup x \cup d : x \in DstX, d \in DstD}

InitTrees ==
    {treeOf({<<RootSegs, DirNode>>,
             <<RootSegs \o <<NmS>>, DirNode>>,
             <<RootSegs \o <<NmS, NmX>>, FileNode("A")>>} \cup sd \cup sl \cup t) :
        sd \in SrcD, sl \in SrcL, t \in DstT}

TreeInit ==
    /\ tfs \in InitTrees
    /\ tfs0 = tfs
    /\ treq = NoTreeReq
    /\ tstats = NoStats
    /\ tresp = NoTreeResp

TreeServe(op, srcRaw, destDirRaw, destNameRaw, policyRaw, order, renameOk) ==
    \E r \in {treeHandle(op, srcRaw, destDirRaw, destNameRaw, policyRaw, order,
                         renameOk, tfs)} :
       /\ treq.op = "none"
       /\ treq' = [op |-> op, src |-> srcRaw, destDir |-> destDirRaw,
                   destName |-> destNameRaw, policy |-> policyRaw,
                   order |-> order, renameOk |-> renameOk]
       /\ tfs' = r.st.fs
       /\ tstats' = r.st.stats
       /\ tresp' = [status |-> r.status, error |-> r.error, counts |-> r.counts,
                    done |-> IF r.counts THEN r.st.stats.done ELSE 0,
                    skipped |-> IF r.counts THEN r.st.stats.skipped ELSE 0,
                    overwritten |-> IF r.counts THEN r.st.stats.overwritten ELSE 0]
       /\ UNCHANGED tfs0
       /\ UNCHANGED <<sessVars, pathVars, entryVars, arVars, gitVars, upVars, lateVars>>

Copy(srcRaw, destDirRaw, destNameRaw, policyRaw, order) ==
    TreeServe("copy", srcRaw, destDirRaw, destNameRaw, policyRaw, order, TRUE)

Move(srcRaw, destDirRaw, destNameRaw, policyRaw, order, renameOk) ==
    TreeServe("move", srcRaw, destDirRaw, destNameRaw, policyRaw, order, renameOk)

\* the path parameters of delete and rename, and the names of rename
PathArgs == {<<".">>, <<".", "/">>, <<"s">>, <<"s", "/", "d">>, <<"s", "/", "l">>,
             <<"t">>, <<"n">>, <<".", ".", "/", "o">>}
NewNameArgs == {<<>>, <<"t">>, <<"n">>, <<".", ".">>}

\* what fs.statSync(p) sees: a symbolic link is followed to what it points to
statFollow(f, p, linkTo) == IF kindAt(f, p) = "symlink" THEN linkTo ELSE kindAt(f, p)

\* the response of delete and rename, and the tree they leave
TreeDone(op, targetRaw, nameRaw, f, status, error) ==
    /\ treq.op = "none"
    /\ treq' = [NoTreeReq EXCEPT !.op = op, !.src = targetRaw, !.destName = nameRaw]
    /\ tfs' = f
    /\ tresp' = [NoTreeResp EXCEPT !.status = status, !.error = error]
    /\ UNCHANGED <<tfs0, tstats>>
    /\ UNCHANGED <<sessVars, pathVars, entryVars, arVars, gitVars, upVars, lateVars>>

\* POST /api/fs/delete
Delete(targetRaw, linkTo) ==
    LET r == resolvePathFromQuery(targetRaw)
        target == segsOf(r.target)
        Answer(f, status, error) == TreeDone("delete", targetRaw, <<>>, f, status, error)
    IN IF ~r.ok THEN Answer(tfs, 403, r.error)
       ELSE IF isRootPath(r.target) THEN Answer(tfs, 403, "forbidden at root")
       ELSE IF statFollow(tfs, target, linkTo) = "absent"
       THEN Answer(tfs, 500, "ENOENT")
       ELSE Answer(rmSync(tfs, target), 200, "")

\* POST /api/fs/rename
Rename(targetRaw, newNameRaw) ==
    LET r == resolvePathFromQuery(targetRaw)
        target == segsOf(r.target)
        nm == validateFileName(newNameRaw)
        dest == Append(dirname(target), nm.name)
        Answer(f, status, error) ==
            TreeDone("rename", targetRaw, newNameRaw, f, status, error)
    IN IF ~r.ok THEN Answer(tfs, 403, r.error)
       ELSE IF isRootPath(r.target) THEN Answer(tfs, 403, "forbidden at root")
       ELSE IF ~nm.ok THEN Answer(tfs, 400, nm.error)
       ELSE IF ~withinRoot(absPath(dest)) THEN Answer(tfs, 403, "out of root")
       ELSE IF existsSync(tfs, dest) THEN Answer(tfs, 409, "dest exists")
       ELSE IF ~canRename(tfs, target, dest, TRUE) THEN Answer(tfs, 500, "ENOENT")
       ELSE Answer(renameSync(tfs, target, dest), 200, "")

TreeNext ==
    \/ /\ treq.op = "none"
       /\ \E a \in PathArgs, k \in {"dir", "file", "absent"} : Delete(a, k)
    \/ /\ treq.op = "none"
       /\ \E a \in PathArgs, n \in NewNameArgs : Rename(a, n)
    \/ /\ treq.op = "none"
       /\ \E a \in TreeSrcArgs, d \in TreeDestDirArgs, n \in TreeDestNameArgs,
             c \in PolicyArgs, o \in Orders : Copy(a, d, n, c, o)
    \/ /\ treq.op = "none"
       /\ \E a \in TreeSrcArgs, d \in TreeDestDirArgs, n \in TreeDestNameArgs,
             c \in PolicyArgs, o \in Orders, k \in BOOLEAN : Move(a, d, n, c, o, k)

InitTree ==
    TreeInit /\ SessIdle /\ PathIdle /\ EntryIdle /\ ArIdle /\ GitIdle /\ UpIdle /\ LateIdle

SpecTree == InitTree /\ [][TreeNext]_vars

TreeTypeOK ==
    /\ tresp.status \in {0, 200, 400, 403, 409, 500}
    /\ tresp.counts <=> tresp.status = 200

\* src.target and dst of the request served, by segments
treqSrc == segsOf(resolvePathFromQuery(treq.src).target)
treqDestDir == segsOf(resolvePathFromQuery(treq.destDir).target)
treqDst ==
    Append(treqDestDir,
           IF treq.destName # <<>> THEN validateFileName(treq.destName).name
           ELSE basename(resolvePathFromQuery(treq.src).target))
treqPolicy == IF treq.policy = "" THEN "error" ELSE treq.policy

\* the request was a merge of the directory src into dst: it passed the
\* checks of the handler and entered the try block with a directory source
MergeRan(op) ==
    /\ treq.op = op
    /\ kindAt(tfs0, treqSrc) = "dir"
    /\ tresp.status \in {200, 409, 500}

\* the source entries below src, as paths relative to it
srcRels == {SubSeq(p, Len(treqSrc) + 1, Len(p)) :
               p \in {q \in DOMAIN tfs0 : isUnder(q, treqSrc) /\ q # treqSrc}}

\* a source entry meets a conflict: its destination path existed before the
\* request, and the two cannot be merged (they are not both directories)
conflictAt(rel) ==
    /\ (treqDst \o rel) \in DOMAIN tfs0
    /\ \/ tfs0[treqSrc \o rel].kind # "dir"
       \/ tfs0[treqDst \o rel].kind # "dir"

(* C14: a directory merge Copy with policy 'skip' leaves every entry that     *)
(* existed before the request with the type and content it had, creates only *)
(* paths that did not exist, all of them below the destination directory,    *)
(* and a successful response counts one skipped for each conflicting entry.  *)
C14_SkipPreserves ==
    (MergeRan("copy") /\ treqPolicy = "skip") =>
        /\ \A p \in DOMAIN tfs0 : p \in DOMAIN tfs /\ tfs[p] = tfs0[p]
        /\ \A p \in DOMAIN tfs \ DOMAIN tfs0 : isUnder(p, treqDestDir)
        /\ tresp.status = 200 =>
              tresp.skipped = Cardinality({r \in srcRels : conflictAt(r)})

C14_Witness ==
    /\ MergeRan("copy") /\ treqPolicy = "skip"
    /\ tresp.status = 200
    /\ tresp.skipped = 2
    /\ \E r \in srcRels : Len(r) = 2 /\ conflictAt(r)
    /\ \E r \in srcRels : Len(r) = 1 /\ conflictAt(r)

\* every entry of the source tree is a regular file or a directory
RegularSource ==
    \A p \in DOMAIN tfs0 : isUnder(p, treqSrc) => tfs0[p].kind \in {"file", "dir"}

\* the request reached the engine with a destination directory that exists
\* and a destination path outside the source (and the source outside it)
EngineRan(op) ==
    /\ treq.op = op
    /\ kindAt(tfs0, treqSrc) \in {"file", "dir"}
    /\ tresp.status \in {200, 409, 500}
    /\ kindAt(tfs0, treqDestDir) = "dir"
    /\ ~isUnder(treqDst, treqSrc)
    /\ ~isUnder(treqSrc, treqDst)

(* C15: a Copy with policy 'overwrite' does not fail because of a conflict,  *)
(* and afterwards every destination path that conflicted with a source       *)
(* entry, the top-level destination path included, holds the source entry.   *)
C15_OverwriteReplaces ==
    (/\ EngineRan("copy") /\ treqPolicy = "overwrite" /\ RegularSource
     /\ \E r \in srcRels \cup {<<>>} : conflictAt(r))
    => /\ tresp.status = 200
       /\ \A r \in srcRels \cup {<<>>} :
             conflictAt(r) => /\ (treqDst \o r) \in DOMAIN tfs
                              /\ tfs[treqDst \o r] = tfs0[treqSrc \o r]

\* the same for every conflict except a directory copied onto a top-level
\* destination path that is not a directory
C15_TraversedReplaced ==
    (/\ EngineRan("copy") /\ treqPolicy = "overwrite" /\ RegularSource
     /\ ~(kindAt(tfs0, treqSrc) = "dir" /\ conflictAt(<<>>))
     /\ \E r \in srcRels \cup {<<>>} : conflictAt(r))
    => /\ tresp.status = 200
       /\ \A r \in srcRels \cup {<<>>} :
             conflictAt(r) => /\ (treqDst \o r) \in DOMAIN tfs
                              /\ tfs[treqDst \o r] = tfs0[treqSrc \o r]

\* the order in which a merge visits the entries of the source directory:
\* each directory's entries in listing order, a directory's own entries
\* right after it
listed(rel) ==
    SelectSeq(treq.order, LAMBDA n : (treqSrc \o Append(rel, n)) \in DOMAIN tfs0)

RECURSIVE walkNames(_, _)
walkNames(rel, names) ==
    IF Len(names) = 0 THEN <<>>
    ELSE LET r == Append(rel, Head(names))
         IN <<r>>
            \o (IF tfs0[treqSrc \o r].kind = "dir" THEN walkNames(r, listed(r))
                ELSE <<>>)
            \o walkNames(rel, Tail(names))

traversal == walkNames(<<>>, listed(<<>>))

conflictsInOrder == {i \in 1..Len(traversal) : conflictAt(traversal[i])}
firstConflict == CHOOSE i \in conflictsInOrder : \A j \in conflictsInOrder : i <= j

\* a merge Copy with policy 'error' whose traversal meets a conflict, every
\* entry up to the conflict being a regular file or a directory
ErrorMergeMeetsConflict ==
    /\ MergeRan("copy") /\ treqPolicy = "error"
    /\ kindAt(tfs0, treqDestDir) = "dir"
    /\ kindAt(tfs0, treqDst) \in {"absent", "dir"}
    /\ ~isUnder(treqDst, treqSrc)
    /\ conflictsInOrder # {}
    /\ \A i \in 1..firstConflict :
          tfs0[treqSrc \o traversal[i]].kind \in {"file", "dir"}

C17_FailureReportsCounts ==
    (/\ MergeRan("copy") \/ MergeRan("move")
     /\ ~isUnder(treqDst, treqSrc)
     /\ tresp.status \in {409, 500}
     /\ tstats.done + tstats.skipped + tstats.overwritten > 0)
    => /\ tresp.counts
       /\ tresp.done = tstats.done
       /\ tresp.skipped = tstats.skipped
       /\ tresp.overwritten = tstats.overwritten

(* C18: a Copy or Move of a directory whose destination path is the source   *)
(* directory or lies inside its subtree, whatever the names of the path      *)
(* segments in between, is rejected before anything is created or moved.     *)
C18_SelfContainmentRejected ==
    (/\ treq.op \in {"copy", "move"}
     /\ kindAt(tfs0, treqSrc) = "dir"
     /\ tresp.status \notin {0, 403}
     /\ isUnder(treqDst, treqSrc))
    => /\ tresp.status = 400
       /\ tresp.error \in {"cannot copy directory into itself",
                           "cannot move directory into itself"}
       /\ tfs = tfs0

\* the entries of the source tree that are neither regular files nor
\* directories
specialEntries ==
    {p \in DOMAIN tfs0 : isUnder(p, treqSrc) /\ tfs0[p].kind \notin {"file", "dir"}}

(* C19: a Copy or Move of a tree that holds a symbolic link or a non-regular *)
(* entry fails with an error, and that entry is neither skipped, followed    *)
(* nor relocated, whether or not the destination directory already exists.   *)
C19_SpecialEntriesRejected ==
    (/\ treq.op \in {"copy", "move"}
     /\ kindAt(tfs0, treqSrc) = "dir"
     /\ tresp.status \in {200, 409, 500}
     /\ ~isUnder(treqDst, treqSrc)
     /\ specialEntries # {})
    => /\ tresp.status # 200
       /\ tresp.error # ""
       /\ \A p \in specialEntries : p \in DOMAIN tfs /\ tfs[p] = tfs0[p]

\* the same for Copy alone
C19_CopyRejects ==
    (/\ treq.op = "copy"
     /\ kindAt(tfs0, treqSrc) = "dir"
     /\ tresp.status \in {200, 409, 500}
     /\ ~isUnder(treqDst, treqSrc)
     /\ specialEntries # {})
    => /\ tresp.status # 200
       /\ tresp.error # ""
       /\ \A p \in specialEntries : p \in DOMAIN tfs /\ tfs[p] = tfs0[p]

\* ------------------------------------------------------------------------
\* Streaming uploads: POST /api/upload-raw and streamToFileWithLimit
\* ------------------------------------------------------------------------
MAX_UPLOAD_BYTES == 2

\* what a request streams, one byte per data event
Payloads(u) == IF u = 1 THEN {<<"a", "a">>}
               ELSE {<<"b", "b">>, <<"b", "b", "b">>}

OldData == <<"o">>

UpInit ==
    /\ utarget0 \in {[exists |-> FALSE, data |-> <<>>],
                     [exists |-> TRUE, data |-> OldData]}
    /\ uinodes = IF utarget0.exists THEN <<utarget0.data>> ELSE <<>>
    /\ udir = [target |-> IF utarget0.exists THEN 1 ELSE 0, tmp |-> 0]
    /\ uploads = [u \in Requests |-> NoUpload]

UpFrame ==
    UNCHANGED <<sessVars, pathVars, entryVars, arVars, gitVars, treeVars, lateVars>>

\* unlinkQuiet(tmp): the name goes, an open descriptor keeps its inode
unlinkQuiet(d) == [d EXCEPT !.tmp = 0]

\* the write of one byte at offset pos of a file; a gap reads as zero bytes
writeAt(c, pos, b) ==
    [i \in 1..(IF Len(c) > pos + 1 THEN Len(c) ELSE pos + 1) |->
        IF i = pos + 1 THEN b ELSE IF i <= Len(c) THEN c[i] ELSE "0"]

\* the handler up to its await: the checks, unlinkQuiet(tmp) and the creation
\* of the write stream, whose file is opened later
UploadBegin(u, payload, overwrite) ==
    /\ uploads[u].pc = "idle"
    /\ IF udir.target # 0 /\ ~overwrite
       THEN /\ uploads' = [uploads EXCEPT ![u].pc = "done", ![u].status = 409,
                                          ![u].error = "file exists",
                                          ![u].payload = payload,
                                          ![u].overwrite = overwrite]
            /\ UNCHANGED udir
       ELSE /\ uploads' = [uploads EXCEPT ![u].pc = "opening",
                                          ![u].payload = payload,
                                          ![u].overwrite = overwrite]
            /\ udir' = unlinkQuiet(udir)
    /\ UNCHANGED <<uinodes, utarget0>>
    /\ UpFrame

\* fs.createWriteStream(tmpPath) opens the path for writing some time after
\* the call: the file the name leads to is truncated, or a new file is
\* created; the bytes written to the stream so far are then flushed to it.
\* A stream destroyed in the meantime still completes its open, and closes
RECURSIVE flush(_, _, _)
flush(c, bytes, pos) ==
    IF Len(bytes) = 0 THEN c
    ELSE flush(writeAt(c, pos, Head(bytes)), Tail(bytes), pos + 1)

UploadOpen(u) ==
    LET up == uploads[u]
        ino == IF udir.tmp = 0 THEN Len(uinodes) + 1 ELSE udir.tmp
        opened == IF udir.tmp = 0 THEN Append(uinodes, <<>>)
                  ELSE [uinodes EXCEPT ![udir.tmp] = <<>>]
    IN /\ up.pc \in {"opening", "closing"}
       /\ udir' = [udir EXCEPT !.tmp = ino]
       /\ IF up.pc = "opening"
          THEN /\ uinodes' = [opened EXCEPT ![ino] =
                                 flush(<<>>, SubSeq(up.payload, 1, up.sent), 0)]
               /\ uploads' = [uploads EXCEPT ![u].pc = "streaming", ![u].fd = ino,
                                             ![u].pos = up.sent]
          ELSE /\ uinodes' = opened
               /\ uploads' = [uploads EXCEPT ![u].pc = "done"]
       /\ UNCHANGED utarget0
       /\ UpFrame

\* done(err): the stream is destroyed and tmp unlinked; the request is over
\* once the stream's pending open, if any, has completed
afterDone(up) == IF up.pc = "opening" THEN "closing" ELSE "done"

\* req.on('data'): the chunk that crosses the limit destroys the request and
\* the stream.  The destroyed request emits 'aborted' and 'error', the stream
\* 'error': whichever listener runs first settles done(err), and the handler
\* answers 413 for 'payload too large' and 500 for 'client aborted'.
\* Any other chunk is written to the stream, at the descriptor's offset once
\* the file is open
UploadChunk(u, first) ==
    LET up == uploads[u]
    IN /\ up.pc \in {"opening", "streaming"}
       /\ up.sent < Len(up.payload)
       /\ IF up.written + 1 > MAX_UPLOAD_BYTES
          THEN /\ uploads' = [uploads EXCEPT
                                 ![u].pc = afterDone(up),
                                 ![u].status = IF first = "error" THEN 413 ELSE 500,
                                 ![u].error = IF first = "error" THEN "file too large"
                                              ELSE "client aborted",
                                 ![u].written = up.written + 1]
               /\ udir' = unlinkQuiet(udir)
               /\ UNCHANGED uinodes
          ELSE /\ first = "error"
               /\ uploads' = [uploads EXCEPT ![u].sent = up.sent + 1,
                                             ![u].pos = IF up.pc = "streaming"
                                                        THEN up.pos + 1 ELSE up.pos,
                                             ![u].written = up.written + 1]
               /\ IF up.pc = "streaming"
                  THEN uinodes' = [uinodes EXCEPT ![up.fd] =
                                      writeAt(uinodes[up.fd], up.pos,
                                              up.payload[up.sent + 1])]
                  ELSE UNCHANGED uinodes
               /\ UNCHANGED udir
       /\ UNCHANGED utarget0
       /\ UpFrame

\* req.on('end'): the stream is flushed and closed, the promise resolves and
\* the handler renames tmp to target; without a tmp the rename throws
UploadEnd(u) ==
    LET up == uploads[u]
    IN /\ up.pc = "streaming"
       /\ up.sent = Len(up.payload)
       /\ IF udir.tmp # 0
          THEN /\ udir' = [target |-> udir.tmp, tmp |-> 0]
               /\ uploads' = [uploads EXCEPT ![u].pc = "done", ![u].status = 200]
          ELSE /\ UNCHANGED udir
               /\ uploads' = [uploads EXCEPT ![u].pc = "done", ![u].status = 500,
                                             ![u].error = "ENOENT"]
       /\ UNCHANGED <<uinodes, utarget0>>
       /\ UpFrame

\* req.on('aborted') when the client goes away: done(err) destroys the
\* stream and unlinks tmp
UploadAbort(u) ==
    /\ uploads[u].pc \in {"opening", "streaming"}
    /\ uploads[u].sent < Len(uploads[u].payload)
    /\ uploads' = [uploads EXCEPT ![u].pc = afterDone(uploads[u]),
                                  ![u].status = 500,
                                  ![u].error = "client aborted"]
    /\ udir' = unlinkQuiet(udir)
    /\ UNCHANGED <<uinodes, utarget0>>
    /\ UpFrame

UpNext ==
    \/ \E u \in Requests : \E p \in Payloads(u), o \in BOOLEAN :
          UploadBegin(u, p, o)
    \/ \E u \in Requests : UploadOpen(u)
    \/ \E u \in Requests, first \in {"error", "aborted"} : UploadChunk(u, first)
    \/ \E u \in Requests : UploadEnd(u)
    \/ \E u \in Requests : UploadAbort(u)

InitUpload ==
    UpInit /\ SessIdle /\ PathIdle /\ EntryIdle /\ ArIdle /\ GitIdle /\ TreeIdle /\ LateIdle

SpecUpload == InitUpload /\ [][UpNext]_vars

\* what the target path holds
targetData == IF udir.target = 0 THEN <<"absent">> ELSE <<"data", uinodes[udir.target]>>

\* the target holds what it held before the requests, or the whole payload
\* of one request
C20_TargetWhole ==
    \/ targetData = (IF utarget0.exists THEN <<"data", utarget0.data>>
                     ELSE <<"absent">>)
    \/ \E u \in Requests :
          uploads[u].pc # "idle" /\ targetData = <<"data", uploads[u].payload>>

\* the step in which a request reports success installs its own payload
C20_SuccessInstalls ==
    \A u \in Requests :
       (uploads[u].status # 200 /\ uploads'[u].status = 200)
       => targetData' = <<"data", uploads[u].payload>>

(* C20: with two streaming uploads to one target path running concurrently, *)
(* their chunk events interleaved, the target holds at every moment either  *)
(* its previous content or the complete payload of exactly one upload, and  *)
(* an upload that reports success has installed its own complete payload.   *)
C20_AllOrNothing == []C20_TargetWhole /\ [][C20_SuccessInstalls]_vars

\* what the target path held before the requests
targetBefore == IF utarget0.exists THEN <<"data", utarget0.data>> ELSE <<"absent">>

\* request u is over and was the only request
AloneDone(u) ==
    /\ uploads[u].pc = "done"
    /\ \A v \in Requests \ {u} : uploads[v].pc = "idle"

\* request u streamed its whole payload within the limit and was not refused
StreamedWhole(u) ==
    /\ AloneDone(u)
    /\ uploads[u].sent = Len(uploads[u].payload)
    /\ uploads[u].written <= MAX_UPLOAD_BYTES
    /\ uploads[u].status # 409

\* request u streamed one byte more than the limit
CrossedLimit(u) ==
    /\ AloneDone(u)
    /\ uploads[u].written > MAX_UPLOAD_BYTES

(* C21: a streaming upload of at most MAX_UPLOAD_BYTES bytes ends with the   *)
(* target holding exactly the streamed bytes; one that exceeds the limit is  *)
(* stopped at the chunk that crosses it, answers 413, leaves no temporary    *)
(* file and leaves the target as it was before the request.                  *)
C21_LimitEnforced ==
    \A u \in Requests :
       /\ StreamedWhole(u) =>
             /\ uploads[u].status = 200
             /\ targetData = <<"data", uploads[u].payload>>
             /\ udir.tmp = 0
       /\ CrossedLimit(u) =>
             /\ uploads[u].written = MAX_UPLOAD_BYTES + 1
             /\ uploads[u].sent = MAX_UPLOAD_BYTES
             /\ uploads[u].status = 413
             /\ udir.tmp = 0
             /\ targetData = targetBefore

\* the part of C21 that holds: a stream within the limit is installed whole,
\* and no stream that crosses the limit touches the target or is answered
\* with success
C21_WithinLimitInstalled ==
    \A u \in Requests :
       /\ StreamedWhole(u) =>
             /\ uploads[u].status = 200
             /\ targetData = <<"data", uploads[u].payload>>
             /\ udir.tmp = 0
       /\ CrossedLimit(u) =>
             /\ uploads[u].written = MAX_UPLOAD_BYTES + 1
             /\ uploads[u].status \in {413, 500}
             /\ targetData = targetBefore

\* ------------------------------------------------------------------------
\* Text writes: PUT /api/file
\* ------------------------------------------------------------------------
MAX_TEXT_FILE_BYTES == 2
MTIME_TOLERANCE == 2
MaxWrites == 2
MaxClock == 14

WrFrame ==
    UNCHANGED <<sessVars, pathVars, entryVars, arVars, gitVars, treeVars, upVars>>

\* body.content: a string, or a JSON value of another type
StringContent(t) == [isString |-> TRUE, text |-> t]
ContentArgs == {StringContent(<<"a">>), StringContent(<<"b", "c">>),
                StringContent(<<"x", "x", "x">>),
                [isString |-> FALSE, text |-> <<>>]}

\* body.mtimeMs: absent, null, a JSON number, or a JSON string
NoMtime == [t |-> "absent", n |-> 0, s |-> <<>>]
NullMtime == [t |-> "null", n |-> 0, s |-> <<>>]
NumMtime(n) == [t |-> "number", n |-> n, s |-> <<>>]
StrMtime(s) == [t |-> "string", n |-> 0, s |-> s]
InfinityText == <<"I", "n", "f", "i", "n", "i", "t", "y">>
MtimeArgs ==
    {NoMtime, NullMtime}
    \cup {NumMtime(n) : n \in {7, 8, 10, 12, 13}}
    \cup {StrMtime(s) : s \in {<<"7">>, <<"1", "2">>, <<"1", "3", "x">>, <<"x">>,
                               <<>>, InfinityText}}

digitOf(c) == CASE c = "0" -> 0 [] c = "1" -> 1 [] c = "2" -> 2 [] c = "3" -> 3
                [] c = "4" -> 4 [] c = "5" -> 5 [] c = "6" -> 6 [] c = "7" -> 7
                [] c = "8" -> 8 [] c = "9" -> 9 [] OTHER -> -1

\* the value of the longest prefix of s made of digits, from position i
RECURSIVE digitsFrom(_, _, _)
digitsFrom(s, i, acc) ==
    IF i > Len(s) \/ digitOf(s[i]) < 0 THEN acc
    ELSE digitsFrom(s, i + 1, 10 * acc + digitOf(s[i]))

\* Number.parseFloat(v) and Number.isFinite of the result
parseFloat(v) ==
    IF v.t = "number" THEN [finite |-> TRUE, n |-> v.n]
    ELSE IF v.t = "string" /\ Len(v.s) > 0 /\ digitOf(v.s[1]) >= 0
    THEN [finite |-> TRUE, n |-> digitsFrom(v.s, 1, 0)]
    ELSE [finite |-> FALSE, n |-> 0]

abs(n) == IF n < 0 THEN -n ELSE n

\* a stale-lock test that needs a difference of at least the tolerance
staleAtTolerance(mtimeMs, expected) == abs(mtimeMs - expected) >= MTIME_TOLERANCE

\* Math.abs(st.mtimeMs - expected) > 2
stale(mtimeMs, expected) == abs(mtimeMs - expected) > MTIME_TOLERANCE

WritePathArgs == {<<"f">>, <<"g">>, <<"d">>, <<"n">>, <<"f", "/", "n">>, <<".", ".">>}

WFile(data, mtime) == [kind |-> "file", data |-> data, mtime |-> mtime]
WDir == [kind |-> "dir", data |-> <<>>, mtime |-> 0]

WrInit ==
    /\ wfs \in {[q \in {ROOT, ROOT \o <<"/", "d">>, ROOT \o <<"/", "f">>,
                        ROOT \o <<"/", "g">>} |->
                    IF q = ROOT \o <<"/", "f">> THEN WFile(<<"o">>, m)
                    ELSE IF q = ROOT \o <<"/", "g">>
                    THEN WFile(<<"o", "o", "o">>, m)
                    ELSE WDir] : m \in {9, 10}}
    /\ wclock \in {10, 12}
    /\ wreq = NoWriteReq
    /\ wresp = NoWriteResp
    /\ wleft = MaxWrites

wdirname(t) ==
    LET segs == segsOf(t)
    IN absPath(SubSeq(segs, 1, Len(segs) - 1))

WriteAnswer(status, error, mtimeMs) ==
    wresp' = [status |-> status, error |-> error, mtimeMs |-> mtimeMs]

\* PUT /api/file
WriteText(rawPath, content, mtimeMs) ==
    /\ wleft > 0
    /\ \E r \in {resolvePathFromQuery(rawPath)} :
         LET exists == r.target \in DOMAIN wfs
             st == wfs[r.target]
             expected == parseFloat(mtimeMs)
             parent == wdirname(r.target)
             Refuse(status, error, m) == WriteAnswer(status, error, m) /\ UNCHANGED wfs
         IN /\ wleft' = wleft - 1
            /\ wreq' = [path |-> rawPath, content |-> content, mtimeMs |-> mtimeMs]
            /\ UNCHANGED wclock
            /\ WrFrame
            /\ IF ~r.ok THEN Refuse(403, r.error, 0)
               ELSE IF ~content.isString THEN Refuse(400, "content must be string", 0)
               ELSE IF Len(content.text) > MAX_TEXT_FILE_BYTES
               THEN Refuse(413, "content too large", 0)
               ELSE IF exists /\ st.kind # "file" THEN Refuse(400, "not a file", 0)
               ELSE IF exists /\ Len(st.data) > MAX_TEXT_FILE_BYTES
               THEN Refuse(413, "file too large", 0)
               ELSE IF /\ exists
                       /\ mtimeMs.t \notin {"absent", "null"}
                       /\ expected.finite
                       /\ stale(st.mtime, expected.n)
               THEN Refuse(409, "file changed on disk", st.mtime)
               ELSE IF ~exists /\ ~withinRoot(parent) THEN Refuse(403, "out of root", 0)
               ELSE IF ~exists /\ parent \in DOMAIN wfs /\ wfs[parent].kind # "dir"
               THEN Refuse(500, "mkdir failed", 0)
               ELSE /\ wfs' = [q \in DOMAIN wfs \cup {r.target} |->
                                  IF q = r.target THEN WFile(content.text, wclock)
                                  ELSE wfs[q]]
                    /\ WriteAnswer(200, "", wclock)

\* time passes
WriteTick ==
    /\ wclock < MaxClock
    /\ wleft > 0
    /\ wclock' = wclock + 1
    /\ UNCHANGED <<wfs, wreq, wresp, wleft>>
    /\ WrFrame

WrNext ==
    \/ \E a \in WritePathArgs, c \in ContentArgs, m \in MtimeArgs : WriteText(a, c, m)
    \/ WriteTick

InitWrite ==
    WrInit /\ SessIdle /\ PathIdle /\ EntryIdle /\ ArIdle /\ GitIdle /\ TreeIdle /\ UpIdle

SpecWrite == InitWrite /\ [][WrNext]_vars

\* the step is a request that passes the checks made before the lock test:
\* a path inside the root that names a regular file within the size limit,
\* and a string content within the size limit
WriteReachesLock ==
    /\ wleft' < wleft
    /\ resolvePathFromQuery(wreq'.path).ok
    /\ resolvePathFromQuery(wreq'.path).target \in DOMAIN wfs
    /\ wfs[resolvePathFromQuery(wreq'.path).target].kind = "file"
    /\ Len(wfs[resolvePathFromQuery(wreq'.path).target].data) <= MAX_TEXT_FILE_BYTES
    /\ wreq'.content.isString
    /\ Len(wreq'.content.text) <= MAX_TEXT_FILE_BYTES

\* the expected modification time the request supplies, if it supplies one
suppliesTime == wreq'.mtimeMs.t \notin {"absent", "null"} /\ parseFloat(wreq'.mtimeMs).finite
suppliedTime == parseFloat(wreq'.mtimeMs).n
lockedFile == wfs[resolvePathFromQuery(wreq'.path).target]

C22_Step ==
    WriteReachesLock =>
       IF suppliesTime /\ abs(lockedFile.mtime - suppliedTime) > 2
       THEN /\ wresp'.status = 409
            /\ wresp'.mtimeMs = lockedFile.mtime
            /\ wfs' = wfs
       ELSE /\ wresp'.status = 200
            /\ wfs'[resolvePathFromQuery(wreq'.path).target] =
                  WFile(wreq'.content.text, wclock)

(* C22: a text write that supplies an expected modification time differing  *)
(* from the file's on-disk modification time by more than 2 ms is answered  *)
(* 409 and leaves the file's content and modification time unchanged; the   *)
(* file is overwritten only when no expected time is supplied or the        *)
(* supplied one is within the tolerance.                                    *)
C22_OptimisticLock == [][C22_Step]_vars

C22_Witness ==
    /\ wresp.status = 409
    /\ wreq.mtimeMs.t = "number"
    /\ wreq.mtimeMs.n = 12
    /\ wresp.mtimeMs = 9
    /\ wleft = 0

\* ------------------------------------------------------------------------
\* Session multiplexer: termination, sweep, detach, geometry, ownership
\* ------------------------------------------------------------------------

\* the sessions a DELETE /api/sessions with this clientId parameter is to end
targeted(cidParam) ==
    {id \in terminalSessions : cidParam = None \/ sessions[id].clientId = cidParam}

\* this step ends session id: off the registry, the kill signal sent, every
\* socket of its attachment set closed or closing
Ended(id) ==
    /\ id \notin terminalSessions'
    /\ sessions'[id].killed
    /\ \A w \in sessions[id].sockets : ws'[w].st \in {"closing", "closed"}

\* this step leaves session id, its sockets and its process as they were
Untouched(id) ==
    /\ (id \in terminalSessions') = (id \in terminalSessions)
    /\ sessions'[id] = sessions[id]
    /\ \A w \in sessions[id].sockets : ws'[w] = ws[w]

C23_Step ==
    /\ \A cidParam \in CidParams :
          TerminateAll(cidParam)
          => /\ \A id \in targeted(cidParam) : Ended(id)
             /\ \A id \in IdPool \ targeted(cidParam) : Untouched(id)
             /\ httpResp'.ids = targeted(cidParam)
    /\ \A sessionId \in SessionIds, cidParam \in CidParams :
          (Terminate(sessionId, cidParam) /\ httpResp'.status = 200)
          => /\ Ended(sessionId)
             /\ \A id \in IdPool \ {sessionId} : Untouched(id)

(* C23: a step of Terminate that answers 200, and every step of             *)
(* TerminateAll, takes each targeted session off the registry, has sent its *)
(* process the kill signal and leaves none of its attached sockets open;    *)
(* TerminateAll with a clientId targets exactly the registered sessions     *)
(* owned by that clientId, all of them when none is given; every other      *)
(* session keeps its registry entry, its session object and its sockets.    *)
C23_TerminateEnds == [][C23_Step]_vars

C23_Witness ==
    /\ httpResp.op = "terminateAll"
    /\ \E id \in httpResp.ids :
          /\ sessions[id].clientId = "A"
          /\ sessions[id].killed
          /\ id \notin terminalSessions
          /\ \E w \in sessions[id].sockets : ws[w].st = "closing"
    /\ \E id \in terminalSessions :
          /\ sessions[id].clientId = "B"
          /\ ~sessions[id].killed
          /\ \E w \in sessions[id].sockets : ws[w].st = "open"

\* ------------------------------------------------------------------------
\* The idle sweep under its timer: the clock and the setInterval callback
\* run whatever the clients do, so they do not draw on the step budget
\* ------------------------------------------------------------------------
MaxSweepSteps == 3      \* client and PTY events in a run of SpecSweep

\* inactive as it would be if the sweep spared sessions with sockets attached
inactiveDetached(id) ==
    /\ now - sessions[id].lastActivity > IDLE_LIMIT
    /\ sessions[id].sockets = {}

\* inactiveTime > 24 * 60 * 60 * 1000
inactive(id) == now - sessions[id].lastActivity > IDLE_LIMIT

\* time passes; the clock is followed for as long as a registered session
\* has not yet reached the threshold
ClockTick ==
    /\ \E id \in terminalSessions : now - sessions[id].lastActivity <= IDLE_LIMIT
    /\ now' = now + 1
    /\ UNCHANGED <<terminalSessions, sessions, minted, ws, produced, ptyIn,
                   httpResp, budget>>
    /\ UNCHANGED <<pathVars, entryVars, arVars, restVars>>

\* one run of the setInterval callback that finds something to remove
SweepTimer ==
    LET ids == {id \in terminalSessions : inactive(id)}
    IN
    /\ ids # {}
    /\ sessions' = killAll(ids)
    /\ terminalSessions' = terminalSessions \ ids
    /\ UNCHANGED <<minted, ws, produced, ptyIn, now, httpResp, budget>>
    /\ UNCHANGED <<pathVars, entryVars, arVars, restVars>>

SweepInit ==
    /\ budget = MaxSweepSteps
    /\ terminalSessions = {}
    /\ sessions = [id \in IdPool |-> NoSession]
    /\ minted = {}
    /\ ws = [w \in Sockets |-> NoSocket]
    /\ produced = [id \in IdPool |-> <<>>]
    /\ ptyIn = [id \in IdPool |-> <<>>]
    /\ now = 0
    /\ httpResp = NoResp

InitSweep == SweepInit /\ PathIdle /\ EntryIdle /\ ArIdle /\ RestIdle

SweepNext == Next \/ ClockTick \/ SweepTimer

\* setInterval keeps calling the callback and time keeps passing
SpecSweep ==
    InitSweep /\ [][SweepNext]_vars /\ WF_vars(ClockTick) /\ WF_vars(SweepTimer)

\* how long session id has been without PTY output, input or resize
age(id) == now - sessions[id].lastActivity

C24_Step ==
    (Sweep \/ SweepTimer)
    => /\ ws' = ws
       /\ \A id \in terminalSessions :
             IF age(id) >= IDLE_LIMIT + 1
             THEN id \notin terminalSessions' /\ sessions'[id].killed
             ELSE id \in terminalSessions' /\ sessions'[id] = sessions[id]

C24_Removed ==
    \A id \in IdPool : (id \in terminalSessions) ~> (id \notin terminalSessions)

(* C24: a sweep takes off the registry, and sends the kill signal to, every *)
(* registered session whose last activity is more than the idle limit       *)
(* back, with or without sockets attached, and leaves every other session  *)
(* as it was; once nothing renews its last activity, a registered session   *)
(* is eventually off the registry.                                          *)
C24_IdleReaper == [][C24_Step]_vars /\ C24_Removed

C24_Witness ==
    \E id1, id2 \in IdPool :
        /\ id1 \notin terminalSessions
        /\ sessions[id1].killed
        /\ httpResp = NoResp
        /\ \E w \in sessions[id1].sockets : ws[w].st = "open"
        /\ id2 \in terminalSessions
        /\ age(id2) = IDLE_LIMIT
        /\ age(id1) > IDLE_LIMIT

\* socket w attached to a session at some time
Attached(c) == c.outcome \in {"created", "reattached"}

C25_Step ==
    \A w \in Sockets :
        CloseEvent(w)
        => /\ terminalSessions' = terminalSessions
           /\ ws' = [ws EXCEPT ![w].st = "closed"]
           /\ \A id \in IdPool :
                 sessions'[id] =
                    IF Attached(ws[w]) /\ ws[w].session = id
                    THEN [sessions[id] EXCEPT !.sockets = @ \ {w}]
                    ELSE sessions[id]
           /\ produced' = produced
           /\ ptyIn' = ptyIn

C25_Reattach ==
    \A w, v \in Sockets :
        (/\ Connects(w)
         /\ ws'[w].outcome \in {"reattached", "forbidden", "notfound"}
         /\ ws[v].st = "closed"
         /\ Attached(ws[v])
         /\ ws[v].session \in terminalSessions
         /\ connSid(ws'[w]) = ws[v].session
         /\ ws'[w].clientId = ws[v].clientId)
        => /\ ws'[w].outcome = "reattached"
           /\ ws'[w].st = "open"
           /\ w \in sessions'[ws[v].session].sockets

(* C25: the 'close' event of a socket takes exactly that socket out of its  *)
(* session's attachment set and changes nothing else: the registry, the     *)
(* session's process, buffer, owner and geometry, the other sockets and the *)
(* other sessions stay as they were, also when the set becomes empty; a     *)
(* later connection that names the session of a closed socket, with that    *)
(* socket's client id, while the session is registered, is attached.        *)
C25_DetachOnly == [][C25_Step /\ C25_Reattach]_vars

C25_Witness ==
    \E w, v \in Sockets :
        /\ v < w
        /\ ws[v].st = "closed"
        /\ Attached(ws[v])
        /\ ws[v].clientId = "A"
        /\ ws[w].outcome = "reattached"
        /\ ws[w].session = ws[v].session
        /\ ws[w].clientId = "A"
        /\ sessions[ws[v].session].sockets = {w}

\* session id has another geometry after this step
Regeometried(id) ==
    \/ sessions'[id].cols # sessions[id].cols
    \/ sessions'[id].rows # sessions[id].rows

C26_Step ==
    /\ \A w \in Sockets, m \in Messages :
          (m.kind = "RESIZE" /\ m.cols # 0 /\ m.rows # 0 /\ Message(w, m))
          => /\ sessions'[ws[w].session].cols = m.cols
             /\ sessions'[ws[w].session].rows = m.rows
    /\ \A id \in minted :
          Regeometried(id)
          => \E w \in Sockets, m \in Messages :
                /\ m.kind = "RESIZE"
                /\ w \in sessions[id].sockets
                /\ ws[w].session = id
                /\ Message(w, m)

(* C26: a RESIZE directive with columns c and rows r from an attached       *)
(* socket makes the session's geometry (c, r); no other step changes the    *)
(* geometry of a session: not a close, and not a reattach, whatever cols    *)
(* and rows the reattaching connection passes.                              *)
C26_SharedGeometry == [][C26_Step]_vars

C26_Witness ==
    \E v, w \in Sockets :
        /\ ws[v].outcome = "created"
        /\ ws[v].cols = 80 /\ ws[v].rows = 24
        /\ ws[v].st = "closing"
        /\ ws[w].outcome = "reattached"
        /\ ws[w].session = ws[v].session
        /\ ws[w].cols = 80 /\ ws[w].rows = 24
        /\ sessions[ws[v].session].cols = 120
        /\ sessions[ws[v].session].rows = 40

C27_Step ==
    \A id \in minted :
        /\ sessions[id].clientId # ""
           => sessions'[id].clientId = sessions[id].clientId
        /\ sessions'[id].clientId # sessions[id].clientId
           => \E w \in Sockets :
                 /\ Connects(w)
                 /\ ws'[w].outcome = "reattached"
                 /\ ws'[w].session = id
                 /\ ws'[w].clientId = sessions'[id].clientId
        /\ \A w \in Sockets :
              (/\ Connects(w)
               /\ ws'[w].outcome = "reattached"
               /\ ws'[w].session = id
               /\ ws'[w].clientId # ""
               /\ sessions[id].clientId = "")
              => sessions'[id].clientId = ws'[w].clientId

(* C27: the owning client identifier of a session, once non-empty, is the   *)
(* same after every step; a session without one takes the client           *)
(* identifier of the first connection that reattaches with one, and only    *)
(* such a step sets it.                                                     *)
C27_FirstWriterWins == [][C27_Step]_vars

C27_Witness ==
    \E v, w, u \in Sockets :
        /\ ws[v].outcome = "created"
        /\ ws[v].clientId = ""
        /\ ws[w].outcome = "reattached"
        /\ ws[w].session = ws[v].session
        /\ ws[w].clientId = "A"
        /\ ws[u].outcome = "forbidden"
        /\ ws[u].clientId = "B"
        /\ ws[u].frames[1].id = ws[v].session
        /\ sessions[ws[v].session].clientId = "A"

\* the steps that may take session id off the registry
Removes(id) ==
    \/ \E cidParam \in CidParams :
          Terminate(id, cidParam) /\ httpResp'.status = 200
    \/ \E cidParam \in CidParams :
          TerminateAll(cidParam) /\ id \in targeted(cidParam)
    \/ Sweep /\ age(id) > IDLE_LIMIT

C30_Step ==
    \A id \in terminalSessions : id \notin terminalSessions' => Removes(id)

\* a session whose shell has exited is listed and attached to like any other
C30_ExitedStays ==
    /\ \A id \in IdPool :
          (ShellExit(id) /\ id \in terminalSessions) => id \in terminalSessions'
    /\ \A w \in Sockets :
          (/\ Connects(w)
           /\ ws'[w].outcome \in {"reattached", "forbidden", "notfound"}
           /\ connSid(ws'[w]) \in terminalSessions
           /\ ~sessions[connSid(ws'[w])].alive)
          => ws'[w].outcome # "notfound"
    /\ \A cidParam \in CidParams :
          List(cidParam) => httpResp'.ids = targeted(cidParam)

(* C30: a session goes off the registry only in a step of Terminate that    *)
(* answers 200 for it, a step of TerminateAll that targets it, or a sweep   *)
(* that finds it idle beyond the limit; no other step (socket close,        *)
(* rejected attach, message, PTY output, exit of the shell) removes one,    *)
(* and a registered session whose shell has exited is still listed and      *)
(* is found by a connection that names it.                                  *)
C30_RemovedOnlyBy == [][C30_Step /\ C30_ExitedStays]_vars

C30_Witness ==
    \E id \in terminalSessions : \E w \in Sockets :
        /\ ~sessions[id].alive
        /\ ~sessions[id].killed
        /\ ws[w].outcome = "reattached"
        /\ ws[w].session = id
        /\ ws[w].idx0 = Len(produced[id])
        /\ httpResp.op = "list"
        /\ id \in httpResp.ids

\* ------------------------------------------------------------------------
\* Properties of the commit list and of the cwd check of the git endpoints
\* ------------------------------------------------------------------------
CommitsStep == gitOps' < gitOps /\ gitResp'.op = "commits"

\* the commits list of the answer of this step
listedCommits == gitResp'.commits

C28_Step ==
    CommitsStep
    => /\ \A i \in 1..Len(listedCommits) :
             /\ listedCommits[i].hash \in reachable(head)
             /\ IF upstream = None
                THEN listedCommits[i].pushed = "null"
                ELSE /\ listedCommits[i].pushed \in {"true", "false"}
                     /\ listedCommits[i].pushed = "true"
                        <=> listedCommits[i].hash \in reachable(upstream)
       /\ (gitResp'.status = 200 /\ gitResp'.at = RepoDir /\ RepoDir \in repos)
          => Len(listedCommits) >= 1

(* C28: in the answer of the commit list, every listed commit has pushed =  *)
(* null when no upstream is configured; with an upstream, pushed is true    *)
(* exactly for the listed commits reachable from the upstream ref and false *)
(* for the others; the answer is computed from the repository as it is      *)
(* when the request is served.                                              *)
C28_Classification == [][C28_Step]_vars

C28_Witness ==
    /\ gitResp.op = "commits"
    /\ Len(gitResp.commits) = LOG_LIMIT_MAX
    /\ \E i \in 1..Len(gitResp.commits) : gitResp.commits[i].pushed = "true"
    /\ \E i \in 1..Len(gitResp.commits) : gitResp.commits[i].pushed = "false"
    /\ Cardinality(reachable(head) \ reachable(upstream)) >= 2

\* a step of one of the five git endpoints
GitStep == gitOps' < gitOps

\* the segments below the root of the directory a cwd parameter resolves to
belowRoot(raw) ==
    LET segs == segsOf(pathResolve(ROOT, raw))
    IN SubSeq(segs, Len(segsOf(ROOT)) + 1, Len(segs))

\* raw resolves to the root itself or to a path with a hidden segment
RootOrHidden(raw) ==
    /\ withinRoot(pathResolve(ROOT, raw))
    /\ \/ belowRoot(raw) = <<>>
       \/ \E i \in 1..Len(belowRoot(raw)) : Head(belowRoot(raw)[i]) = "."

\* the request of this step is answered with an error and has run nothing
Refused ==
    /\ gitResp'.status >= 400
    /\ gitResp'.at = <<>>
    /\ ~gitResp'.ran
    /\ UNCHANGED <<objects, parents, head, worktree, repos>>

(* C29: a request to a git endpoint (info, commits, init, reset, revert)    *)
(* whose cwd parameter resolves to the root itself, or to a path with a     *)
(* segment that starts with '.', is refused and no git command runs in     *)
(* that directory, however the path is spelled.                             *)
C29_Step == (GitStep /\ RootOrHidden(gitResp'.cwd)) => Refused

C29_RootAndHiddenRefused == [][C29_Step]_vars

\* what holds: the spelling '.' of the root, and hidden segments, are refused
C29_LiteralStep ==
    (/\ GitStep
     /\ RootOrHidden(gitResp'.cwd)
     /\ (belowRoot(gitResp'.cwd) = <<>> => trim(gitResp'.cwd) = <<".">>))
    => Refused

C29_LiteralRootAndHiddenRefused == [][C29_LiteralStep]_vars

\* ------------------------------------------------------------------------
\* Properties of delete, rename and move at the root
\* ------------------------------------------------------------------------
\* the path the request names resolves to the configured root itself
NamesRoot == segsOf(pathResolve(ROOT, treq.src)) = RootSegs

C31_RootKept ==
    (treq.op \in {"delete", "rename", "move"} /\ NamesRoot)
    => /\ tresp.status = 403
       /\ tresp.error = "forbidden at root"
       /\ tfs = tfs0

C31_DeleteExact ==
    treq.op = "delete"
    => IF tresp.status = 200
       THEN LET p == segsOf(pathResolve(ROOT, treq.src))
            IN /\ DOMAIN tfs = {q \in DOMAIN tfs0 : ~isUnder(q, p)}
               /\ \A q \in DOMAIN tfs : tfs[q] = tfs0[q]
       ELSE tfs = tfs0

(* C31: delete, rename and move of a path that resolves to the configured   *)
(* root are answered 403 'forbidden at root' and leave the tree as it was;  *)
(* a delete that is accepted removes the path with its whole subtree and    *)
(* nothing else, and a delete that is not accepted removes nothing.         *)
C31_RootAndSubtree == C31_RootKept /\ C31_DeleteExact

C31_Witness ==
    /\ treq.op = "delete"
    /\ tresp.status = 200
    /\ treq.src = <<"s", "/", "d">>
    /\ (RootSegs \o <<NmS, NmD, NmY>>) \in DOMAIN tfs0
    /\ (RootSegs \o <<NmS, NmD>>) \notin DOMAIN tfs
    /\ (RootSegs \o <<NmS, NmX>>) \in DOMAIN tfs

C31_RootWitness ==
    /\ treq.op = "delete"
    /\ treq.src = <<".", "/">>
    /\ tresp.status = 403

\* ------------------------------------------------------------------------
\* Properties of the input path: socket messages to the PTY
\* ------------------------------------------------------------------------
\* this step is the arrival of some message on some socket
Arrival == \E w \in Sockets, m \in Messages : Message(w, m)

\* what the PTY of the socket's session has been given after the arrival of m
\* on w, when text is what is written for it
Written(w, m, text) ==
    IF m.kind = "raw"
    THEN ptyIn' = [ptyIn EXCEPT ![ws[w].session] = Append(@, text)]
    ELSE ptyIn' = ptyIn

C32_Step ==
    /\ \A w \in Sockets, m \in Messages : Message(w, m) => Written(w, m, m.text)
    /\ ~Arrival => ptyIn' = ptyIn

(* C32: every message from an attached socket that is neither a resize      *)
(* directive nor a session-identifier query is appended to what the         *)
(* session's PTY is given, byte for byte as it was received, at the moment  *)
(* it arrives; nothing else is ever given to the PTY, so the messages of    *)
(* all sockets reach it in arrival order, none dropped or duplicated.       *)
C32_VerbatimInOrder == [][C32_Step]_vars

C32_DecodedStep ==
    /\ \A w \in Sockets, m \in Messages :
          Message(w, m) => Written(w, m, toString(m.text))
    /\ ~Arrival => ptyIn' = ptyIn

\* what holds: the decoded text of every such message is appended on arrival
C32_DecodedInOrder == [][C32_DecodedStep]_vars

\* ------------------------------------------------------------------------
\* Properties of the order of the guards of reset
\* ------------------------------------------------------------------------
\* the commit the request of this step names, if any
namedCommit ==
    LET c == trimArg(gitResp'.commit)
    IN IF c \in objects THEN c
       ELSE IF c = "HEAD" THEN head
       ELSE IF c = UpstreamName THEN upstream
       ELSE None

\* the request of this step names the repository p and passes the checks
\* made before the four guards
PastParameters ==
    /\ gitResp'.cwd = <<"p">>
    /\ RepoDir \in repos
    /\ gitAvailable
    /\ lowerArg(gitResp'.mode) \in {"soft", "hard"}
    /\ trimArg(gitResp'.commit) # ""
    /\ (lowerArg(gitResp'.mode) = "hard" => jsBoolean(gitResp'.confirm))

\* the first of the first three guards that the request violates, if any
firstViolated ==
    IF namedCommit = None THEN "invalid commit"
    ELSE IF upstream = None THEN "upstream not configured"
    ELSE IF namedCommit \notin reachable(head) THEN "commit not reachable from HEAD"
    ELSE ""

C33_Step ==
    (ResetStep /\ PastParameters)
    => /\ (firstViolated # "")
          => (gitResp'.error = firstViolated /\ gitResp'.status = 400)
       /\ (firstViolated = "")
          => (\/ gitResp'.ran /\ gitResp'.status \in {200, 500}
              \/ /\ gitResp'.error = "only upstream head can be reset to when pushed"
                 /\ gitResp'.status = 400
                 /\ published(namedCommit))
       /\ (gitResp'.status = 400)
          => (/\ ~gitResp'.ran
              /\ UNCHANGED <<head, worktree, objects, parents, upstream>>)

(* C33: a reset that passes the parameter checks reports the first guard it *)
(* violates in the order: the target names a commit object, an upstream is  *)
(* configured, the target is reachable from HEAD, the published-commit      *)
(* rule; a refused reset runs no git reset and changes nothing.             *)
C33_GuardOrder == [][C33_Step]_vars

C33_Witness ==
    /\ gitResp.op = "reset"
    /\ gitResp.error = "upstream not configured"
    /\ gitResp.commit \in objects
    /\ gitResp.commit \notin reachable(head)
    /\ upstream = None

\* ------------------------------------------------------------------------
\* Properties of the trimming of the replay buffer
\* ------------------------------------------------------------------------
\* the buffer of session id with the output d appended, before it is trimmed
untrimmed(id, d) == sessions[id].history \o filterHistoryForReplay(d)

\* kept is the part of text that follows one of its newlines
AfterNewline(text, kept) ==
    \E k \in 1..(Len(text) - 1) :
        text[k] = "NL" /\ kept = SubSeq(text, k + 1, Len(text))

C34_Step ==
    \A id \in IdPool, d \in PtyChunks :
        (Output(id, d) /\ Len(untrimmed(id, d)) > HISTORY_MAX_CHARS)
        => AfterNewline(untrimmed(id, d), sessions'[id].history)

(* C34: whenever appending PTY output makes the replay buffer longer than   *)
(* the ceiling, the buffer kept is the part of the untrimmed text that      *)
(* follows one of its newlines, whatever the text is.                       *)
C34_TrimAtLineBoundary == [][C34_Step]_vars

\* text has a newline at or after the size-based cut, other than its last
\* character
NewlineAfterCut(text) ==
    \E k \in (Len(text) - HISTORY_MAX_CHARS + 1)..(Len(text) - 1) : text[k] = "NL"

C34_NewlineStep ==
    \A id \in IdPool, d \in PtyChunks :
        (/\ Output(id, d)
         /\ Len(untrimmed(id, d)) > HISTORY_MAX_CHARS
         /\ NewlineAfterCut(untrimmed(id, d)))
        => AfterNewline(untrimmed(id, d), sessions'[id].history)

\* what holds: the cut is at a line boundary when the text has such a newline
C34_TrimAtNewlineIfAny == [][C34_NewlineStep]_vars

\* ------------------------------------------------------------------------
\* Properties of the filtering of the replay buffer
\* ------------------------------------------------------------------------
\* text contains the sequence that clears the scroll-back
HasClearScrollback(text) ==
    \E i \in 1..(Len(text) - 3) : SubSeq(text, i, i + 3) = ClearScrollback

(* C35: in every reachable state the replay buffer of every session holds   *)
(* no scroll-back-clearing sequence (ESC [ 3 J), however the PTY's output   *)
(* is split into chunks.                                                    *)
C35_NoClearInHistory ==
    \A id \in IdPool : ~HasClearScrollback(sessions[id].history)

C35_LiveStep ==
    \A id \in IdPool, d \in PtyChunks :
        Output(id, d)
        => \A w \in recipients(sessions[id].sockets) :
              ws'[w].frames = Append(ws[w].frames, DataFrame(d))

\* what holds: the attached sockets are sent every chunk as the PTY gave it
C35_LiveUnfiltered == [][C35_LiveStep]_vars

\* ------------------------------------------------------------------------
\* Properties of the ownership of attachments
\* ------------------------------------------------------------------------
(* C36: in every reachable state, every socket in the attachment set of a   *)
(* session that has a non-empty owner belongs to a connection whose client  *)
(* identifier is that owner; a connection that gave no client identifier is *)
(* not attached to an owned session.                                        *)
C36_OwnedAttachments ==
    \A id \in IdPool :
        sessions[id].clientId # ""
        => \A w \in sessions[id].sockets : ws[w].clientId = sessions[id].clientId

\* what holds: an attached connection that gave a client identifier gave
\* the owner's
C36_NamedAttachments ==
    \A id \in IdPool :
        \A w \in sessions[id].sockets :
            ws[w].clientId \in {"", sessions[id].clientId}

\* ------------------------------------------------------------------------
\* Properties of sockets of sessions that were removed from the registry
\* ------------------------------------------------------------------------
\* id was registered and no longer is
Gone(id) == id \in minted /\ id \notin terminalSessions

\* w is open and bound to session id
BoundOpen(w, id) == ws[w].st = "open" /\ Attached(ws[w]) /\ ws[w].session = id

(* C37: once a session has been removed from the registry, by terminate,    *)
(* terminate-all or the idle sweep, no open socket is bound to it (so that  *)
(* no later message can be written to its PTY or change its geometry).      *)
C37_NoSocketOnRemoved ==
    \A id \in IdPool : Gone(id) => \A w \in Sockets : ~BoundOpen(w, id)

C37_LateStep ==
    \A id \in IdPool :
        Gone(id) => /\ ptyIn'[id] = ptyIn[id]
                    /\ sessions'[id].cols = sessions[id].cols
                    /\ sessions'[id].rows = sessions[id].rows

\* the second half of the claim: no step writes to the PTY of a removed
\* session or changes its geometry
C37_NoLateInput == [][C37_LateStep]_vars

C37_TerminatedStep ==
    \A id \in IdPool :
        (/\ id \in terminalSessions
         /\ id \notin terminalSessions'
         /\ ~(Sweep /\ now - sessions[id].lastActivity > IDLE_LIMIT))
        => \A w \in Sockets : ~(ws'[w].st = "open" /\ Attached(ws'[w])
                                /\ ws'[w].session = id)

\* what holds: terminate and terminate-all leave no open socket bound to
\* the sessions they remove
C37_TerminateCloses == [][C37_TerminatedStep]_vars

\* ------------------------------------------------------------------------
\* Properties of uploads that must not overwrite
\* ------------------------------------------------------------------------
\* the file the target name leads to is the same file with the same content
TargetKept ==
    /\ udir'.target = udir.target
    /\ uinodes'[udir.target] = uinodes[udir.target]

C38_Step ==
    \A u \in Requests :
        (UploadEnd(u) /\ ~uploads[u].overwrite /\ udir.target # 0) => TargetKept

(* C38: an upload requested without overwrite never replaces a file: when   *)
(* the target exists at the moment the upload's data is renamed into place, *)
(* also when another request created it while this one was streaming, the   *)
(* file under the target name and its content stay as they are.             *)
C38_NoOverwriteKeeps == [][C38_Step]_vars

C38_BeginStep ==
    \A u \in Requests : \A p \in Payloads(u) :
        (UploadBegin(u, p, FALSE) /\ udir.target # 0)
        => /\ uploads'[u].status = 409
           /\ uploads'[u].pc = "done"
           /\ TargetKept

\* what holds: a request that finds the target when it arrives is refused
C38_ExistingAtArrivalRefused == [][C38_BeginStep]_vars

\* ------------------------------------------------------------------------
\* Properties of the confidentiality of the replay buffer
\* ------------------------------------------------------------------------
\* cidParam names a client other than the owner of the registered session id
Stranger(cidParam, id) ==
    /\ id \in terminalSessions
    /\ sessions[id].clientId # ""
    /\ cidParam # None
    /\ cidParam # sessions[id].clientId

C39_Step ==
    \A id \in IdPool, cidParam \in CidParams :
        (History(id, cidParam) /\ Stranger(cidParam, id))
        => httpResp'.history = <<>>

(* C39: no request of a client that presents an identifier other than the   *)
(* owner's returns any part of the session's replay buffer: a history       *)
(* fetch by such a client carries no buffer content.                        *)
C39_HistoryConfidential == [][C39_Step]_vars

C39_OtherStep ==
    \A id \in IdPool, cidParam \in CidParams :
        Stranger(cidParam, id)
        => /\ List(cidParam) => id \notin httpResp'.ids
           /\ Terminate(id, cidParam)
              => (httpResp'.status = 403 /\ id \in terminalSessions')
           /\ \A w \in Sockets, cwdParam \in CwdParams, geomParam \in GeomParams :
                 Connect(w, cwdParam, id, cidParam, geomParam)
                 => /\ w \notin sessions'[id].sockets
                    /\ \A i \in 1..Len(ws'[w].frames) : ws'[w].frames[i].k # "data"

\* what holds: the list filtered by the stranger's identifier leaves the
\* session out, its terminate is refused, and its attach is refused before
\* any replay
C39_OtherPathsClosed == [][C39_OtherStep]_vars

\* ------------------------------------------------------------------------
\* Properties of move: no data is lost
\* ------------------------------------------------------------------------
\* a move under 'skip' or 'error' that was answered with success
MoveDone ==
    /\ treq.op = "move"
    /\ treqPolicy \in {"skip", "error"}
    /\ tresp.status = 200

\* the entry that was at p before the request is at q after it
Holds(q, p) == q \in DOMAIN tfs /\ tfs[q] = tfs0[p]

\* the paths of the source tree before the request, the source included
srcPaths == {q \in DOMAIN tfs0 : isUnder(q, treqSrc)}

\* where the move takes the source path p
destOf(p) == treqDst \o SubSeq(p, Len(treqSrc) + 1, Len(p))

C40_FilesKept ==
    \A p \in srcPaths :
        tfs0[p].kind = "file" => (Holds(p, p) \/ Holds(destOf(p), p))

C40_SkipKeepsDestination ==
    treqPolicy = "skip"
    => \A p \in DOMAIN tfs0 \ srcPaths : Holds(p, p)

C40_RemovedWhenEmpty ==
    \A d \in srcPaths :
        (tfs0[d].kind = "dir" /\ d \notin DOMAIN tfs)
        => \A p \in srcPaths : isUnder(p, d) => destOf(p) \in DOMAIN tfs

(* C40: after a move answered with success under policy 'skip' or 'error',  *)
(* every regular file of the source tree is, with its content, at its       *)
(* source path or at the corresponding destination path; under 'skip' the   *)
(* entries that existed outside the source tree are unchanged; and a source *)
(* directory is gone only when all it held is at the destination.           *)
C40_MoveLosesNothing ==
    MoveDone => (C40_FilesKept /\ C40_SkipKeepsDestination /\ C40_RemovedWhenEmpty)

C40_Witness ==
    /\ MoveDone
    /\ treqPolicy = "skip"
    /\ tresp.skipped >= 1
    /\ tresp.done >= 1
    /\ \E p \in srcPaths : tfs0[p].kind = "file" /\ Holds(p, p)
    /\ \E p \in srcPaths :
          tfs0[p].kind = "file" /\ p \notin DOMAIN tfs /\ Holds(destOf(p), p)

====
